---- MODULE Spec2Model ----
(***************************************************************************)
(* Verification model of the BletchMAME info-DB builder                    *)
(* (info::database_builder, ListXmlTask) and of the worker-protocol        *)
(* session (RunMachineTask).                                               *)
(*                                                                         *)
(* Strings are sequences of character codes; code 0 is the NUL byte and    *)
(* never occurs inside a string (XML text cannot hold it).                 *)
(***************************************************************************)
EXTENDS Integers, Sequences, FiniteSets, TLC

VARIABLES
    \* info::database_builder
    m_strings,      \* string_table: [m_data, m_map]
    getLog,         \* the get calls made so far: <<[s, ref], ...>>
    header,         \* info::binaries::header being built
    m_salted_header,
    m_machines, m_roms, m_configurations, m_configuration_settings,
    m_slots, m_slot_options,
    m_biossets, m_disks, m_devices, m_features, m_chips, m_displays,
    m_samples, m_configuration_conditions, m_software_lists, m_ram_options,
    xmlPath,        \* the element the parser is in
    pxResult,       \* process_xml: "running", "true" or "false"
    error_message,
    document,       \* for each kind, the elements xml.parse has dispatched
    calls,          \* number of process_xml calls made on the builder
    \* ListXmlTask
    m_aborted,      \* abort requested by the main thread
    taskPc,         \* position of ListXmlTask::internalProcess
    abortSeen,      \* what hasAborted() returned
    fileState,      \* the output file: "absent", "open" or "written"
    resultStatus,   \* status of the posted ListXmlResultEvent, or "none"
    output,         \* what emit_info has written to the file, block by block
    \* RunMachineTask
    m_chatterEnabled,       \* set by the constructor, read by the worker
    m_startedWithHashPaths, \* written by getArguments before the launch
    m_messageQueue, \* messages posted and not yet received
    submitted,      \* the commands the main thread has posted, in order
    childState,     \* the emulator process: "running" or "exited"
    childStatus,    \* its exit status
    childStderr,    \* what it wrote to its standard error
    notified,       \* the exit callback has run on the main thread
    childOut,       \* lines the child has written and the worker has not read
    linesWritten,   \* number of lines the child has written
    exitAt,         \* where the worker was blocked when the child ended
    childIn,        \* the command lines written to the child
    workerPc,       \* "inaugural", "receive", "response" or "done"
    linesRead,      \* lines read by the receiveResponse call in progress
    callStart,      \* number of events posted when that call began
    lastCall,       \* the last receiveResponseAndHandleUpdates call that returned
    returned,       \* number of such calls that have returned
    events,         \* events posted to the handler, in order
    wire,           \* every line the worker has read from the child, in order
    issuedAt,       \* per command written: lines read and events posted then
    quietEvents,    \* the events the same session posts with no chatter hook
    \* util::salt
    saltOriginal,   \* the bytes given to salt
    saltValue,      \* the salt given with them
    saltResults,    \* the results of salting, then of salting the result
    \* binaryFromHex
    hexSize,        \* N, the size of the field
    hexInput,       \* the attribute: an optional string
    hexDest,        \* the field before the call
    hexResult,      \* <<>> or <<[outcome, dest, result]>>
    \* Preferences::InternalApplySubstitutions
    substInput,     \* src
    substResult,    \* <<>> or <<the string returned>>
    \* status::state
    m_state,        \* the session state kept by the main window
    m_pinging,
    lastUpdate,     \* the status update applied last, and the state before it
    updatesApplied, \* number of status updates applied
    \* MainWindow
    dbFile,         \* the info database file on disk
    mameExecutablePresent,
    m_mame_version, \* the version the emulator reported, "" if none
    checkPc,        \* position of InitialCheckMameInfoDatabase
    checkStatus,    \* what CheckMameInfoDatabase returned last
    m_info_db,      \* the loaded database: "empty" or "loaded"
    rebuildStarted, \* a ListXmlTask has been launched
    prompts,        \* times the user was asked for the executable
    messageBoxes,   \* the error messages shown to the user, in order
    \* Preferences
    m_folder_prefs, \* the folders whose prefs differ from the default
    folderPrefsChanged, \* number of folderPrefsChanged signals emitted
    prefsCall,      \* the SetFolderPrefs calls made, with what preceded each
    prefsDocument,  \* the preferences document, as the elements it holds
    loadedDirectly, \* <<>> or <<[success, prefs]>>: the document loaded
    loadedFirst,    \* <<>> or <<[success, prefs]>>: the object that saves
    savedOutput,    \* <<>> or <<the elements Save has written, as text>>
    loadedAgain,    \* <<>> or <<[success, prefs]>>: the saved output loaded
    \* a build whose sample table is known by its size
    samplesSize,    \* m_samples.size(), a std::size_t
    progressPosted, \* number of ListXmlProgressEvents posted
    \* a string table whose buffer is known by its size
    largeTable,     \* [m_data_size, m_map]
    largeLog,       \* the get calls made on it: <<[s, ref], ...>>
    \* RunMachineTask::buildCommand
    commandArgs,    \* the arguments given to buildCommand
    commandBuilt,   \* <<>> or <<the command it returned>>
    \* MainWindow::InvokePing
    sessionActive,  \* m_state.has_value()
    issued,         \* the commands issued and not yet answered, in order
    pendingUpdates, \* the StatusUpdateEvents posted and not yet handled
    \* PathsDialog::PathListModel
    m_entries,      \* the entries of the list: <<[m_path, m_isValid], ...>>
    m_pathCategory, \* the category given to setPaths
    pathsEnded,     \* an assertion has ended the program
    outside,        \* the erase calls with a position outside the entries
    lastPathCall    \* <<>> or <<[op, index, path, before]>>: the last call

stringVars == <<m_strings, getLog>>
moreTables == <<m_biossets, m_disks, m_devices, m_features, m_chips, m_displays,
                m_samples, m_configuration_conditions, m_software_lists,
                m_ram_options>>
tableVars == <<m_machines, m_roms, m_configurations, m_configuration_settings,
               m_slots, m_slot_options, moreTables>>
builderVars == <<header, m_salted_header, xmlPath, pxResult, error_message,
                 document, calls>>
taskVars == <<m_aborted, taskPc, abortSeen, fileState, resultStatus, output>>
mainVars == <<m_messageQueue, submitted>>
childVars == <<childState, childStatus, childStderr, notified, childOut,
               linesWritten, exitAt>>
workerVars == <<childIn, workerPc, linesRead, callStart, lastCall, returned,
                events, wire, issuedAt, quietEvents>>
fieldVars == <<m_chatterEnabled, m_startedWithHashPaths>>
runVars == <<fieldVars, mainVars, childVars, workerVars>>
saltVars == <<saltOriginal, saltValue, saltResults>>
hexVars == <<hexSize, hexInput, hexDest, hexResult>>
substVars == <<substInput, substResult>>
statusVars == <<m_state, m_pinging, lastUpdate, updatesApplied>>
\* the variables of the operations specified one by one
prefsVars == <<m_folder_prefs, folderPrefsChanged, prefsCall>>
fileVars == <<prefsDocument, loadedDirectly, loadedFirst, savedOutput,
              loadedAgain>>
sizedVars == <<samplesSize, progressPosted>>
\* the variables of the preferences, the dialogs and the sized build
largeVars == <<largeTable, largeLog>>
commandVars == <<commandArgs, commandBuilt>>
pingVars == <<sessionActive, issued, pendingUpdates>>
pathsVars ==
    <<m_entries, m_pathCategory, pathsEnded, outside, lastPathCall>>
frontVars ==
    <<prefsVars, fileVars, sizedVars, largeVars, commandVars, pingVars,
      pathsVars>>
\* all of them but one group
exceptPrefs ==
    <<fileVars, sizedVars, largeVars, commandVars, pingVars, pathsVars>>
exceptFile ==
    <<prefsVars, sizedVars, largeVars, commandVars, pingVars, pathsVars>>
exceptSized ==
    <<prefsVars, fileVars, largeVars, commandVars, pingVars, pathsVars>>
exceptLarge ==
    <<prefsVars, fileVars, sizedVars, commandVars, pingVars, pathsVars>>
exceptCommand ==
    <<prefsVars, fileVars, sizedVars, largeVars, pingVars, pathsVars>>
exceptPing ==
    <<prefsVars, fileVars, sizedVars, largeVars, commandVars, pathsVars>>
exceptPaths ==
    <<prefsVars, fileVars, sizedVars, largeVars, commandVars, pingVars>>
utilVars == <<saltVars, hexVars, substVars, statusVars, frontVars>>
windowVars == <<dbFile, mameExecutablePresent, m_mame_version, checkPc,
                checkStatus, m_info_db, rebuildStarted, prompts, messageBoxes>>
vars == <<stringVars, tableVars, builderVars, taskVars, runVars, utilVars,
          windowVars>>

\* ------------------------------------------------------------------------
\*  Bounds of the model
\* ------------------------------------------------------------------------
MaxGets == 3
MaxStrLen == 7

\* character codes of the model alphabet ("a" = 1, "b" = 2)
Chars == {1, 2}

RECURSIVE StringsOfLen(_)
StringsOfLen(n) ==
    IF n = 0 THEN {<<>>}
    ELSE {Append(s, c) : s \in StringsOfLen(n - 1), c \in Chars}

\* the strings fed to string_table::get: every length up to MaxStrLen, the
\* characters after the first two positions fixed to "a"
StringPool ==
    {s \in UNION {StringsOfLen(n) : n \in 0..MaxStrLen} :
        \A i \in 1..Len(s) : i \notin {1, 2} => s[i] = 1}

\* ------------------------------------------------------------------------
\*  Small-string encoding (info::database, not part of the builder source)
\* ------------------------------------------------------------------------
\* longest string encoded inline: the decode buffer is std::array<char, 6>,
\* NUL terminator included
SsoMaxLen == 5
\* each character of a small string takes one digit of this radix
CharRadix == 4
\* reference values at or above SsoBase are small strings
SsoBase == 1048576

RECURSIVE Power(_, _)
Power(b, e) == IF e = 0 THEN 1 ELSE b * Power(b, e - 1)

RECURSIVE EncodeChars(_, _)
EncodeChars(s, i) ==
    IF i > Len(s) THEN 0
    ELSE s[i] * Power(CharRadix, i - 1) + EncodeChars(s, i + 1)

\* std::optional<T>: <<>> is std::nullopt, <<v>> holds v
nullopt == <<>>
Some(v) == <<v>>
has_value(o) == o # <<>>
value_or(o, d) == IF o # <<>> THEN o[1] ELSE d

tryEncodeAsSmallString(s) ==
    IF Len(s) <= SsoMaxLen THEN Some(SsoBase + EncodeChars(s, 1)) ELSE nullopt

\* the decoded buffer: SsoMaxLen + 1 bytes, unused positions are NUL
tryDecodeAsSmallString(value) ==
    IF value >= SsoBase
    THEN Some([i \in 1..(SsoMaxLen + 1) |->
            ((value - SsoBase) \div Power(CharRadix, i - 1)) % CharRadix])
    ELSE nullopt

\* the C string that starts at 0-based offset off of a byte sequence
RECURSIVE CStringAt(_, _)
CStringAt(bytes, off) ==
    IF off + 1 > Len(bytes) \/ bytes[off + 1] = 0 THEN <<>>
    ELSE <<bytes[off + 1]>> \o CStringAt(bytes, off + 1)

\* ------------------------------------------------------------------------
\*  Fixed-width integers: a value is [hi, lo] with value = hi * 2^16 + lo
\* ------------------------------------------------------------------------
Limb == 65536

SizeT(n) == [hi |-> n \div Limb, lo |-> n % Limb]
AsInt(v) == v.hi * Limb + v.lo
UINT32_MAX == [hi |-> Limb - 1, lo |-> Limb - 1]
UINT32_MAX_PLUS_1 == [hi |-> Limb, lo |-> 0]

\* static_cast<std::uint32_t>(value)
CastUint32(v) == [hi |-> v.hi % Limb, lo |-> v.lo]

\* to_uint32 throws std::logic_error when the cast does not round-trip
to_uint32_throws(v) == CastUint32(v) # v
to_uint32(v) == CastUint32(v)

\* ------------------------------------------------------------------------
\*  String table
\* ------------------------------------------------------------------------
MAGIC_STRINGTABLE_BEGIN == <<9, 8>>
MAGIC_STRINGTABLE_END == <<8, 9>>

embed_value(data, value) == data \o value

\* the table after construction
string_table_ctor == [m_data |-> embed_value(<<>>, MAGIC_STRINGTABLE_BEGIN),
                      m_map |-> <<>>]

InMap(map, s) == \E i \in 1..Len(map) : map[i].key = s
MapFind(map, s) == (CHOOSE i \in 1..Len(map) : map[i].key = s)

\* a get that appends without consulting the dedup map
string_table_get_nodedup(st, s) ==
    LET ssoResult == tryEncodeAsSmallString(s) IN
    IF has_value(ssoResult)
    THEN [ref |-> ssoResult[1], st |-> st, threw |-> FALSE]
    ELSE [ref |-> AsInt(to_uint32(SizeT(Len(st.m_data)))),
          st |-> [m_data |-> st.m_data \o s \o <<0>>, m_map |-> st.m_map],
          threw |-> FALSE]

\* a get that never encodes a string into the reference
string_table_get_always_append(st, s) ==
    IF InMap(st.m_map, s)
    THEN [ref |-> st.m_map[MapFind(st.m_map, s)].value, st |-> st, threw |-> FALSE]
    ELSE [ref |-> Len(st.m_data),
          st |-> [m_data |-> st.m_data \o s \o <<0>>,
                  m_map |-> Append(st.m_map, [key |-> s, value |-> Len(st.m_data)])],
          threw |-> FALSE]

\* a get that puts a new string at the start of the buffer, after the magic
string_table_get_front(st, s) ==
    LET ssoResult == tryEncodeAsSmallString(s)
        magic == Len(MAGIC_STRINGTABLE_BEGIN)
    IN
    IF has_value(ssoResult)
    THEN [ref |-> ssoResult[1], st |-> st, threw |-> FALSE]
    ELSE IF InMap(st.m_map, s)
    THEN [ref |-> st.m_map[MapFind(st.m_map, s)].value, st |-> st, threw |-> FALSE]
    ELSE [ref |-> magic,
          st |-> [m_data |-> SubSeq(st.m_data, 1, magic) \o s \o <<0>>
                             \o SubSeq(st.m_data, magic + 1, Len(st.m_data)),
                  m_map |-> Append(st.m_map, [key |-> s, value |-> magic])],
          threw |-> FALSE]

\* string_table::get(const std::string &): the reference, and the table after
string_table_get(st, s) ==
    LET ssoResult == tryEncodeAsSmallString(s) IN
    IF has_value(ssoResult)
    THEN [ref |-> ssoResult[1], st |-> st, threw |-> FALSE]
    ELSE IF InMap(st.m_map, s)
    THEN [ref |-> st.m_map[MapFind(st.m_map, s)].value, st |-> st, threw |-> FALSE]
    ELSE IF to_uint32_throws(SizeT(Len(st.m_data)))
    THEN [ref |-> 0, st |-> st, threw |-> TRUE]
    ELSE LET result == AsInt(to_uint32(SizeT(Len(st.m_data)))) IN
         [ref |-> result,
          st |-> [m_data |-> st.m_data \o s \o <<0>>,
                  m_map |-> Append(st.m_map, [key |-> s, value |-> result])],
          threw |-> FALSE]

\* string_table::lookup: the C string the returned pointer designates
string_table_lookup(st, value) ==
    LET sso == tryDecodeAsSmallString(value) IN
    IF has_value(sso) THEN CStringAt(sso[1], 0)
    ELSE CStringAt(st.m_data, value)

\* ------------------------------------------------------------------------
\*  Header
\* ------------------------------------------------------------------------
MAGIC_HDR == 77
SIZES_HASH == 55

\* ------------------------------------------------------------------------
\*  Database builder: process_xml
\* ------------------------------------------------------------------------
MaxMachines == 2
MaxChildren == 2

\* process_xml calls made on one builder
MaxCalls == 2
\* condition elements of a document
MaxConditions == 1

\* names of the machines of the documents: "a" and the long "bbbbbb"
MachineNames == {<<1>>, <<2, 2, 2, 2, 2, 2>>}
\* values of <<cloneof, romof>>: each is absent (the empty string), the name
\* of a machine, or "bb", which no machine has
References ==
    {<< <<>>, <<1>> >>, << <<1>>, <<2, 2, 2, 2, 2, 2>> >>,
     << <<2, 2, 2, 2, 2, 2>>, <<2, 2>> >>, << <<2, 2>>, <<>> >>}
\* value of the build attribute of the mame element
BuildVersion == <<2, 1, 2, 1, 2, 1>>
\* values of the size attribute of a rom: absent, or a decimal number
SizeAttributes == {nullopt, Some(UINT32_MAX), Some(UINT32_MAX_PLUS_1)}

\* "not found": ~0 stored in a std::uint32_t, all bits set
NotFound == -1

\* XmlParser::Attributes::get<std::uint32_t>: the number when the attribute is
\* present and is a number of that type, std::nullopt otherwise
Attributes_get_uint32(attribute) ==
    IF has_value(attribute) /\ CastUint32(attribute[1]) = attribute[1]
    THEN attribute ELSE nullopt

\* strcmp(a, b) < 0
RECURSIVE strcmp_less_from(_, _, _)
strcmp_less_from(a, b, i) ==
    IF i > Len(b) THEN FALSE
    ELSE IF i > Len(a) THEN TRUE
    ELSE IF a[i] # b[i] THEN a[i] < b[i]
    ELSE strcmp_less_from(a, b, i + 1)
strcmp_less(a, b) == strcmp_less_from(a, b, 1)

\* a machine record whose child ranges all start at 0
machine_begin_index0(name_ref, clone_ref, rom_ref, nroms, nconfs, nslots) ==
    [m_name_strindex |-> name_ref,
     m_clone_of_machindex |-> clone_ref,
     m_rom_of_machindex |-> rom_ref,
     m_roms_index |-> 0, m_roms_count |-> 0,
     m_configurations_index |-> 0, m_configurations_count |-> 0,
     m_slots_index |-> 0, m_slots_count |-> 0]

\* the record the mame/machine handler appends; nroms, nconfs and nslots are
\* the sizes of the child tables
machine_begin(name_ref, clone_ref, rom_ref, nroms, nconfs, nslots) ==
    [m_name_strindex |-> name_ref,
     m_clone_of_machindex |-> clone_ref,
     m_rom_of_machindex |-> rom_ref,
     m_roms_index |-> AsInt(to_uint32(SizeT(nroms))), m_roms_count |-> 0,
     m_configurations_index |-> AsInt(to_uint32(SizeT(nconfs))),
     m_configurations_count |-> 0,
     m_slots_index |-> AsInt(to_uint32(SizeT(nslots))), m_slots_count |-> 0]

\* what the document said of a machine (not part of the record): the position
\* of its element, and its cloneof and romof attributes
Element(doc, cloneof, romof) == [doc |-> doc, cloneof |-> cloneof, romof |-> romof]

\* util::last(container).field++
IncrementLast(container, field) ==
    [container EXCEPT ![Len(container)] =
        [@ EXCEPT ![field] = @ + 1]]

\* ------------------------------------------------------------------------
\*  Attribute decoders
\* ------------------------------------------------------------------------
\* the longest hex string decoded, and the largest field: crc has 4 bytes and
\* sha1 20 in the program
MaxHexLen == 4
MaxFieldSize == 2

\* hexDigit(ch): '0'..'9' are 48..57, 'A'..'F' 65..70, 'a'..'f' 97..102
hexDigit(ch) ==
    IF ch \in 48..57 THEN Some(ch - 48)
    ELSE IF ch \in 65..70 THEN Some(ch - 65 + 10)
    ELSE IF ch \in 97..102 THEN Some(ch - 97 + 10)
    ELSE nullopt

\* hex[index] with index >= hex.size() is outside the string_view: a build
\* without checks reads the terminator of the std::string behind the view, a
\* build with a checked operator[] ends the program
OutOfRangeReads == {"terminator", "terminate"}

\* the loop of util::binaryFromHex from position pos on; hex is indexed from 0
RECURSIVE util_binaryFromHex(_, _, _, _)
util_binaryFromHex(dest, hex, pos, oob) ==
    IF ~(pos < Len(dest) /\ pos < Len(hex) * 2)
    THEN [pos |-> pos, dest |-> dest, terminated |-> FALSE]
    ELSE
    LET hiIndex == pos * 2
        loIndex == pos * 2 + 1
        hiChar == IF hiIndex < Len(hex) THEN hex[hiIndex + 1] ELSE 0
        loChar == IF loIndex < Len(hex) THEN hex[loIndex + 1] ELSE 0
        hiDigit == hexDigit(hiChar)
        loDigit == hexDigit(loChar)
    IN
    IF hiIndex >= Len(hex) /\ oob = "terminate"
    THEN [pos |-> pos, dest |-> dest, terminated |-> TRUE]
    ELSE IF ~has_value(hiDigit)
    THEN [pos |-> pos, dest |-> dest, terminated |-> FALSE]
    ELSE IF loIndex >= Len(hex) /\ oob = "terminate"
    THEN [pos |-> pos, dest |-> dest, terminated |-> TRUE]
    ELSE IF ~has_value(loDigit)
    THEN [pos |-> pos, dest |-> dest, terminated |-> FALSE]
    ELSE util_binaryFromHex(
            [dest EXCEPT ![pos + 1] = (hiDigit[1] * 16 + loDigit[1]) % 256],
            hex, pos + 1, oob)

\* binaryFromHex<N>(dest, hex) of info_builder.cpp: hex is an optional string
binaryFromHex(dest, hex, oob) ==
    LET r == IF has_value(hex) THEN util_binaryFromHex(dest, hex[1], 0, oob)
             ELSE [pos |-> 0, dest |-> dest, terminated |-> FALSE]
    IN
    IF r.terminated
    THEN [terminated |-> TRUE, dest |-> r.dest, result |-> FALSE]
    ELSE [terminated |-> FALSE,
          dest |-> [i \in 1..Len(dest) |-> IF i > r.pos THEN 0 ELSE r.dest[i]],
          result |-> (r.pos = Len(dest))]

\* encodeEnum(value, defaultValue): value is an optional code
encodeEnum(value, defaultValue) ==
    IF has_value(value) THEN value[1] ELSE defaultValue

\* encodeBool(b, defaultValue): b is an optional boolean
encodeBool(b, defaultValue) ==
    IF has_value(b) THEN (IF b[1] THEN 1 ELSE 0) ELSE defaultValue

\* an exception leaves the handler: xml.parse rethrows it and process_xml
\* returns false with the text of the exception
Throw ==
    /\ pxResult' = "false"
    /\ error_message' = "Array size cannot fit in 32 bits"

Parsing == pxResult = "running" /\ taskPc = "process_xml"
InMachine == xmlPath \in {"machine", "configuration", "confsetting", "slot"}
ChildCount == Len(m_roms) + Len(m_configurations) + Len(m_configuration_settings)
                + Len(m_slots) + Len(m_slot_options)
                + Len(m_biossets) + Len(m_disks) + Len(m_devices)
                + Len(m_features) + Len(m_chips) + Len(m_displays)
                + Len(m_samples) + Len(m_software_lists) + Len(m_ram_options)

\* the kinds of element that have a handler
ElementKinds ==
    {"mame", "machine", "biosset", "rom", "disk", "device", "slot",
     "slotoption", "feature", "chip", "display", "sample", "configuration",
     "confsetting", "condition", "softwarelist", "ramoption"}

\* no element has been dispatched
EmptyDocument == [kind \in ElementKinds |-> 0]

\* XmlParser calls the handler registered for the path of an element: the
\* element is the next of its kind in the document
Dispatch(kind) ==
    /\ document' = [document EXCEPT ![kind] = @ + 1]
    /\ UNCHANGED calls

\* which of the elements of its kind the element being handled is, in the
\* order of the document (not part of the record)
Handled(kind) == [elem |-> document[kind] + 1]

\* the fields of the machine record for the child tables that follow; sizes
\* holds the sizes of the tables
machine_begin_rest(sizes) ==
    [m_biossets_index |-> AsInt(to_uint32(SizeT(sizes.biossets))),
     m_biossets_count |-> 0,
     m_disks_index |-> AsInt(to_uint32(SizeT(sizes.disks))),
     m_disks_count |-> 0,
     m_features_index |-> AsInt(to_uint32(SizeT(sizes.features))),
     m_features_count |-> 0,
     m_chips_index |-> AsInt(to_uint32(SizeT(sizes.chips))),
     m_chips_count |-> 0,
     m_displays_index |-> AsInt(to_uint32(SizeT(sizes.displays))),
     m_displays_count |-> 0,
     m_samples_index |-> AsInt(to_uint32(SizeT(sizes.samples))),
     m_samples_count |-> 0,
     m_software_lists_index |-> AsInt(to_uint32(SizeT(sizes.software_lists))),
     m_software_lists_count |-> 0,
     m_ram_options_index |-> AsInt(to_uint32(SizeT(sizes.ram_options))),
     m_ram_options_count |-> 0,
     m_devices_index |-> AsInt(to_uint32(SizeT(sizes.devices))),
     m_devices_count |-> 0]

\* the sizes of those tables
TableSizes ==
    [biossets |-> Len(m_biossets), disks |-> Len(m_disks),
     features |-> Len(m_features), chips |-> Len(m_chips),
     displays |-> Len(m_displays), samples |-> Len(m_samples),
     software_lists |-> Len(m_software_lists),
     ram_options |-> Len(m_ram_options), devices |-> Len(m_devices)]

\* <mame build="...">
BeginMame ==
    /\ UNCHANGED <<runVars, utilVars, windowVars>>
    /\ Parsing
    /\ xmlPath = "document"
    /\ Dispatch("mame")
    /\ LET g == string_table_get(m_strings, BuildVersion) IN
        IF g.threw
        THEN Throw /\ UNCHANGED <<m_strings, header, xmlPath>>
        ELSE /\ m_strings' = g.st
             /\ header' = [header EXCEPT !.m_build_strindex = g.ref]
             /\ xmlPath' = "mame"
             /\ UNCHANGED <<pxResult, error_message>>
    /\ UNCHANGED <<getLog, tableVars, m_salted_header, taskVars>>

\* <machine name="..." cloneof="..." romof="...">
BeginMachine(name, cloneof, romof) ==
    /\ UNCHANGED <<runVars, utilVars, windowVars>>
    /\ Parsing
    /\ xmlPath # "document"
    /\ Len(m_machines) < MaxMachines
    /\ Dispatch("machine")
    /\ LET g1 == string_table_get(m_strings, name)
           g2 == string_table_get(g1.st, cloneof)
           g3 == string_table_get(g2.st, romof)
           threw == \/ g1.threw \/ g2.threw \/ g3.threw
                    \/ to_uint32_throws(SizeT(Len(m_roms)))
                    \/ to_uint32_throws(SizeT(Len(m_configurations)))
                    \/ to_uint32_throws(SizeT(Len(m_slots)))
                    \/ \E table \in DOMAIN TableSizes :
                            to_uint32_throws(SizeT(TableSizes[table]))
       IN
        IF threw
        THEN Throw /\ UNCHANGED <<m_strings, m_machines, xmlPath>>
        ELSE /\ m_strings' = g3.st
             /\ m_machines' = Append(m_machines,
                    machine_begin(g1.ref, g2.ref, g3.ref, Len(m_roms),
                                  Len(m_configurations), Len(m_slots))
                    @@ machine_begin_rest(TableSizes)
                    @@ Element(Len(m_machines) + 1, cloneof, romof))
             /\ xmlPath' = "machine"
             /\ UNCHANGED <<pxResult, error_message>>
    /\ UNCHANGED <<getLog, header, m_salted_header, m_roms, m_configurations,
                   m_configuration_settings, m_slots, m_slot_options,
                   moreTables, taskVars>>

\* <rom size="...">, inside a machine
BeginRom(size) ==
    /\ UNCHANGED <<runVars, utilVars, windowVars>>
    /\ Parsing
    /\ InMachine
    /\ ChildCount < MaxChildren
    /\ Dispatch("rom")
    /\ m_roms' = Append(m_roms,
            [m_size |-> value_or(Attributes_get_uint32(size), SizeT(0)),
             size_attribute |-> size,
             owner |-> Len(m_machines)] @@ Handled("rom"))
    /\ m_machines' = IncrementLast(m_machines, "m_roms_count")
    /\ xmlPath' = "machine"
    /\ UNCHANGED <<stringVars, header, m_salted_header, pxResult, error_message,
                   m_configurations, m_configuration_settings, m_slots,
                   m_slot_options, moreTables, taskVars>>

\* the record the configuration / dipswitch handler appends
configuration_begin(nsettings, owner) ==
    [m_configuration_settings_index |-> AsInt(to_uint32(SizeT(nsettings))),
     m_configuration_settings_count |-> 0,
     owner |-> owner]

\* <configuration> or <dipswitch>, inside a machine
BeginConfiguration ==
    /\ UNCHANGED <<runVars, utilVars, windowVars>>
    /\ Parsing
    /\ InMachine
    /\ ChildCount < MaxChildren
    /\ Dispatch("configuration")
    /\ IF to_uint32_throws(SizeT(Len(m_configuration_settings)))
       THEN Throw /\ UNCHANGED <<m_configurations, m_machines, xmlPath>>
       ELSE /\ m_configurations' = Append(m_configurations,
                    configuration_begin(Len(m_configuration_settings),
                                        Len(m_machines)) @@ Handled("configuration"))
            /\ m_machines' = IncrementLast(m_machines, "m_configurations_count")
            /\ xmlPath' = "configuration"
            /\ UNCHANGED <<pxResult, error_message>>
    /\ UNCHANGED <<stringVars, header, m_salted_header, m_roms,
                   m_configuration_settings, m_slots, m_slot_options,
                   moreTables, taskVars>>

\* <confsetting> or <dipvalue>, inside a configuration
BeginConfSetting ==
    /\ UNCHANGED <<runVars, utilVars, windowVars>>
    /\ Parsing
    /\ xmlPath \in {"configuration", "confsetting"}
    /\ ChildCount < MaxChildren
    /\ Dispatch("confsetting")
    /\ IF to_uint32_throws(SizeT(Len(m_configuration_conditions)))
       THEN Throw /\ UNCHANGED <<m_configuration_settings, m_configurations,
                                 xmlPath>>
       ELSE /\ m_configuration_settings' = Append(m_configuration_settings,
                    [m_conditions_index |->
                        AsInt(to_uint32(SizeT(Len(m_configuration_conditions)))),
                     owner |-> Len(m_configurations)] @@ Handled("confsetting"))
            /\ m_configurations' = IncrementLast(m_configurations,
                    "m_configuration_settings_count")
            /\ xmlPath' = "confsetting"
            /\ UNCHANGED <<pxResult, error_message>>
    /\ UNCHANGED <<stringVars, header, m_salted_header, m_machines, m_roms,
                   m_slots, m_slot_options, moreTables, taskVars>>

\* the record the slot handler appends
slot_begin(noptions, owner) ==
    [m_slot_options_index |-> AsInt(to_uint32(SizeT(noptions))),
     m_slot_options_count |-> 0,
     owner |-> owner]

\* <slot>, inside a machine
BeginSlot ==
    /\ UNCHANGED <<runVars, utilVars, windowVars>>
    /\ Parsing
    /\ InMachine
    /\ ChildCount < MaxChildren
    /\ Dispatch("slot")
    /\ IF to_uint32_throws(SizeT(Len(m_slot_options)))
       THEN Throw /\ UNCHANGED <<m_slots, m_machines, xmlPath>>
       ELSE /\ m_slots' = Append(m_slots,
                    slot_begin(Len(m_slot_options), Len(m_machines)) @@ Handled("slot"))
            /\ m_machines' = IncrementLast(m_machines, "m_slots_count")
            /\ xmlPath' = "slot"
            /\ UNCHANGED <<pxResult, error_message>>
    /\ UNCHANGED <<stringVars, header, m_salted_header, m_roms, m_configurations,
                   m_configuration_settings, m_slot_options, moreTables,
                   taskVars>>

\* <slotoption>, inside a slot
BeginSlotOption ==
    /\ UNCHANGED <<runVars, utilVars, windowVars>>
    /\ Parsing
    /\ xmlPath = "slot"
    /\ ChildCount < MaxChildren
    /\ Dispatch("slotoption")
    /\ m_slot_options' = Append(m_slot_options,
            [owner |-> Len(m_slots)] @@ Handled("slotoption"))
    /\ m_slots' = IncrementLast(m_slots, "m_slot_options_count")
    /\ UNCHANGED <<stringVars, header, m_salted_header, xmlPath, pxResult,
                   error_message, m_machines, m_roms, m_configurations,
                   m_configuration_settings, moreTables, taskVars>>

\* util::enum_parser tables of info_builder.cpp: token |-> enumerator
s_dump_status_parser ==
    [token \in {"baddump", "nodump", "good"} |->
        CASE token = "baddump" -> "BADDUMP"
          [] token = "nodump" -> "NODUMP"
          [] token = "good" -> "GOOD"]
s_status_parser ==
    [token \in {"original", "compatible"} |->
        IF token = "original" THEN "ORIGINAL" ELSE "COMPATIBLE"]
s_relation_parser ==
    [token \in {"eq", "ne", "gt", "le", "lt", "ge"} |->
        CASE token = "eq" -> "EQ" [] token = "ne" -> "NE" [] token = "gt" -> "GT"
          [] token = "le" -> "LE" [] token = "lt" -> "LT" [] token = "ge" -> "GE"]
s_feature_type_parser ==
    [token \in {"protection", "sound"} |->
        IF token = "protection" THEN "PROTECTION" ELSE "SOUND"]
s_chip_type_parser ==
    [token \in {"cpu", "audio"} |-> IF token = "cpu" THEN "CPU" ELSE "AUDIO"]
s_display_type_parser ==
    [token \in {"unknown", "raster", "vector", "lcd", "svg"} |->
        CASE token = "unknown" -> "UNKNOWN" [] token = "raster" -> "RASTER"
          [] token = "vector" -> "VECTOR" [] token = "lcd" -> "LCD"
          [] token = "svg" -> "SVG"]

\* XmlParser::Attributes::get<T>(name, parser): the enumerator of the token
\* when the attribute is present and the parser knows it
Attributes_get_enum(attribute, parser) ==
    IF has_value(attribute) /\ attribute[1] \in DOMAIN parser
    THEN Some(parser[attribute[1]]) ELSE nullopt

\* a field of a new record, before the handler writes to it
ZeroField == [i \in 1..MaxFieldSize |-> 0]

\* the program is ended inside a handler
Terminate ==
    /\ pxResult' = "terminated"
    /\ UNCHANGED error_message

\* a handler that has nothing to throw appends record to the child table
\* of the machine and counts it
AppendChild(table, kind, record, counter) ==
    /\ table' = Append(table, record @@ [owner |-> Len(m_machines)] @@ Handled(kind))
    /\ m_machines' = IncrementLast(m_machines, counter)
    /\ xmlPath' = "machine"
    /\ UNCHANGED <<pxResult, error_message>>

\* <biosset default="...">, inside a machine
BeginBiosset(default) ==
    /\ UNCHANGED <<runVars, utilVars, windowVars>>
    /\ Parsing
    /\ InMachine
    /\ ChildCount < MaxChildren
    /\ Dispatch("biosset")
    /\ AppendChild(m_biossets, "biosset",
            [m_default |-> encodeBool(Some(value_or(default, FALSE)), 255)],
            "m_biossets_count")
    /\ UNCHANGED <<stringVars, header, m_salted_header, m_roms, m_configurations,
                   m_configuration_settings, m_slots, m_slot_options, m_disks,
                   m_devices, m_features, m_chips, m_displays, m_samples,
                   m_configuration_conditions, m_software_lists, m_ram_options,
                   taskVars>>

\* <disk sha1="..." status="...">, inside a machine
BeginDisk(sha1, status, oob) ==
    /\ UNCHANGED <<runVars, utilVars, windowVars>>
    /\ Parsing
    /\ InMachine
    /\ ChildCount < MaxChildren
    /\ Dispatch("disk")
    /\ LET decoded == binaryFromHex(ZeroField, sha1, oob) IN
        IF decoded.terminated
        THEN Terminate /\ UNCHANGED <<m_disks, m_machines, xmlPath>>
        ELSE AppendChild(m_disks, "disk",
                [m_sha1 |-> decoded.dest,
                 sha1_attribute |-> sha1,
                 m_status |-> encodeEnum(
                    Attributes_get_enum(status, s_dump_status_parser), 0)],
                "m_disks_count")
    /\ UNCHANGED <<stringVars, header, m_salted_header, m_roms, m_configurations,
                   m_configuration_settings, m_slots, m_slot_options, m_biossets,
                   m_devices, m_features, m_chips, m_displays, m_samples,
                   m_configuration_conditions, m_software_lists, m_ram_options,
                   taskVars>>

\* <feature type="...">, inside a machine
BeginFeature(type) ==
    /\ UNCHANGED <<runVars, utilVars, windowVars>>
    /\ Parsing
    /\ InMachine
    /\ ChildCount < MaxChildren
    /\ Dispatch("feature")
    /\ AppendChild(m_features, "feature",
            [m_type |-> encodeEnum(
                Attributes_get_enum(type, s_feature_type_parser), 0)],
            "m_features_count")
    /\ UNCHANGED <<stringVars, header, m_salted_header, m_roms, m_configurations,
                   m_configuration_settings, m_slots, m_slot_options, m_biossets,
                   m_disks, m_devices, m_chips, m_displays, m_samples,
                   m_configuration_conditions, m_software_lists, m_ram_options,
                   taskVars>>

\* <chip type="...">, inside a machine
BeginChip(type) ==
    /\ UNCHANGED <<runVars, utilVars, windowVars>>
    /\ Parsing
    /\ InMachine
    /\ ChildCount < MaxChildren
    /\ Dispatch("chip")
    /\ AppendChild(m_chips, "chip",
            [m_type |-> encodeEnum(
                Attributes_get_enum(type, s_chip_type_parser), 0)],
            "m_chips_count")
    /\ UNCHANGED <<stringVars, header, m_salted_header, m_roms, m_configurations,
                   m_configuration_settings, m_slots, m_slot_options, m_biossets,
                   m_disks, m_devices, m_features, m_displays, m_samples,
                   m_configuration_conditions, m_software_lists, m_ram_options,
                   taskVars>>

\* <display type="...">, inside a machine
BeginDisplay(type) ==
    /\ UNCHANGED <<runVars, utilVars, windowVars>>
    /\ Parsing
    /\ InMachine
    /\ ChildCount < MaxChildren
    /\ Dispatch("display")
    /\ AppendChild(m_displays, "display",
            [m_type |-> encodeEnum(
                Attributes_get_enum(type, s_display_type_parser), 0)],
            "m_displays_count")
    /\ UNCHANGED <<stringVars, header, m_salted_header, m_roms, m_configurations,
                   m_configuration_settings, m_slots, m_slot_options, m_biossets,
                   m_disks, m_devices, m_features, m_chips, m_samples,
                   m_configuration_conditions, m_software_lists, m_ram_options,
                   taskVars>>

\* <sample>, inside a machine
BeginSample ==
    /\ UNCHANGED <<runVars, utilVars, windowVars>>
    /\ Parsing
    /\ InMachine
    /\ ChildCount < MaxChildren
    /\ Dispatch("sample")
    /\ AppendChild(m_samples, "sample",
            [m_name_strindex |-> string_table_get(m_strings, <<>>).ref],
            "m_samples_count")
    /\ UNCHANGED <<stringVars, header, m_salted_header, m_roms, m_configurations,
                   m_configuration_settings, m_slots, m_slot_options, m_biossets,
                   m_disks, m_devices, m_features, m_chips, m_displays,
                   m_configuration_conditions, m_software_lists, m_ram_options,
                   taskVars>>

\* <condition relation="...">, inside a confsetting or a dipvalue; no
\* count of a parent is kept
BeginCondition(relation) ==
    /\ UNCHANGED <<runVars, utilVars, windowVars>>
    /\ Parsing
    /\ xmlPath = "confsetting"
    /\ Len(m_configuration_conditions) < MaxConditions
    /\ Dispatch("condition")
    /\ m_configuration_conditions' = Append(m_configuration_conditions,
            [m_relation |-> encodeEnum(
                Attributes_get_enum(relation, s_relation_parser), 0),
             owner |-> Len(m_configuration_settings)] @@ Handled("condition"))
    /\ UNCHANGED <<stringVars, header, m_salted_header, xmlPath, pxResult,
                   error_message, m_machines, m_roms, m_configurations,
                   m_configuration_settings, m_slots, m_slot_options, m_biossets,
                   m_disks, m_devices, m_features, m_chips, m_displays,
                   m_samples, m_software_lists, m_ram_options, taskVars>>

\* <device mandatory="...">, inside a machine; its instance and extension
\* elements change strings of the record and add no record
BeginDevice(mandatory) ==
    /\ UNCHANGED <<runVars, utilVars, windowVars>>
    /\ Parsing
    /\ InMachine
    /\ ChildCount < MaxChildren
    /\ Dispatch("device")
    /\ AppendChild(m_devices, "device",
            [m_mandatory |-> encodeBool(Some(value_or(mandatory, FALSE)), 255),
             m_instance_name_strindex |-> 0,
             m_extensions_strindex |-> 0],
            "m_devices_count")
    /\ UNCHANGED <<stringVars, header, m_salted_header, m_roms, m_configurations,
                   m_configuration_settings, m_slots, m_slot_options, m_biossets,
                   m_disks, m_features, m_chips, m_displays, m_samples,
                   m_configuration_conditions, m_software_lists, m_ram_options,
                   taskVars>>

\* <softwarelist status="...">, inside a machine
BeginSoftwareList(status) ==
    /\ UNCHANGED <<runVars, utilVars, windowVars>>
    /\ Parsing
    /\ InMachine
    /\ ChildCount < MaxChildren
    /\ Dispatch("softwarelist")
    /\ AppendChild(m_software_lists, "softwarelist",
            [m_status |-> encodeEnum(
                Attributes_get_enum(status, s_status_parser), 0)],
            "m_software_lists_count")
    /\ UNCHANGED <<stringVars, header, m_salted_header, m_roms, m_configurations,
                   m_configuration_settings, m_slots, m_slot_options, m_biossets,
                   m_disks, m_devices, m_features, m_chips, m_displays,
                   m_samples, m_configuration_conditions, m_ram_options,
                   taskVars>>

\* <ramoption default="...">, inside a machine
BeginRamOption(default) ==
    /\ UNCHANGED <<runVars, utilVars, windowVars>>
    /\ Parsing
    /\ InMachine
    /\ ChildCount < MaxChildren
    /\ Dispatch("ramoption")
    /\ AppendChild(m_ram_options, "ramoption",
            [m_is_default |-> encodeBool(Some(value_or(default, FALSE)), 255),
             m_value |-> 0],
            "m_ram_options_count")
    /\ UNCHANGED <<stringVars, header, m_salted_header, m_roms, m_configurations,
                   m_configuration_settings, m_slots, m_slot_options, m_biossets,
                   m_disks, m_devices, m_features, m_chips, m_displays,
                   m_samples, m_configuration_conditions, m_software_lists,
                   taskVars>>

\* xml.parse returns false: the document is malformed or ends early
ParseError ==
    /\ UNCHANGED <<runVars, utilVars, windowVars>>
    /\ Parsing
    /\ pxResult' = "false"
    /\ error_message' = "xml"
    /\ UNCHANGED <<stringVars, tableVars, header, m_salted_header, xmlPath,
                   document, calls, taskVars>>

\* ------------------------------------------------------------------------
\*  Finalization of process_xml
\* ------------------------------------------------------------------------
\* a ^ b on bytes
RECURSIVE BitXor(_, _)
BitXor(a, b) ==
    IF a = 0 /\ b = 0 THEN 0
    ELSE (IF a % 2 = b % 2 THEN 0 ELSE 1) + 2 * BitXor(a \div 2, b \div 2)

\* the salt of info::binaries::salt(), as bytes
SaltBytes == <<165, 60, 90>>

\* the bytes of a header struct, one byte per field in the model
HeaderBytes(h) ==
    <<h.m_magic, h.m_sizes_hash, h.m_build_strindex % 256, h.m_machines_count,
      h.m_biossets_count, h.m_roms_count, h.m_disks_count, h.m_devices_count,
      h.m_slots_count, h.m_slot_options_count, h.m_features_count,
      h.m_chips_count, h.m_displays_count, h.m_samples_count,
      h.m_configurations_count, h.m_configuration_settings_count,
      h.m_configuration_conditions_count, h.m_software_lists_count,
      h.m_ram_options_count>>

\* a salt that adds where util::salt combines with ^
salt_added(original, salt_value) ==
    [i \in 1..Len(original) |->
        (original[i] + salt_value[((i - 1) % Len(salt_value)) + 1]) % 256]

\* util::salt(destination, original, original_size, salt, salt_size)
salt(original, salt_value) ==
    [i \in 1..Len(original) |->
        BitXor(original[i], salt_value[((i - 1) % Len(salt_value)) + 1])]

\* the comparison of the sort with the string indexes compared, not the text
machine_less_by_index(st, a, b) == a.m_name_strindex < b.m_name_strindex

\* the comparison std::sort is given: strcmp of the two names < 0
machine_less(st, a, b) ==
    strcmp_less(string_table_lookup(st, a.m_name_strindex),
                string_table_lookup(st, b.m_name_strindex))

OrdersOf(n) ==
    {p \in [1..n -> 1..n] : \A i, j \in 1..n : i # j => p[i] # p[j]}

\* the orders std::sort may leave the machines in (it is not a stable sort)
SortOrders(st, machines) ==
    {p \in OrdersOf(Len(machines)) :
        \A i, j \in 1..Len(machines) :
            i < j => ~machine_less(st, machines[p[j]], machines[p[i]])}

\* unordered_map::emplace: nothing changes when the key is present
Emplace(map, key, value) ==
    IF InMap(map, key) THEN map
    ELSE Append(map, [key |-> key, value |-> value])

RECURSIVE machineIndexMap_fill(_, _, _)
machineIndexMap_fill(machines, i, map) ==
    IF i > Len(machines) THEN map
    ELSE machineIndexMap_fill(machines, i + 1,
            Emplace(map, machines[i].m_name_strindex, i - 1))

\* the map from the string index of a name to the index of its machine
machineIndexMap(emptyRef, machines) ==
    machineIndexMap_fill(machines, 1, Emplace(<<>>, emptyRef, NotFound))

\* a lookup that answers 0 for a string index the map does not hold
machineIndexFromStringIndex_zero(map, stringIndex) ==
    IF InMap(map, stringIndex) THEN map[MapFind(map, stringIndex)].value
    ELSE 0

machineIndexFromStringIndex(map, stringIndex) ==
    IF InMap(map, stringIndex) THEN map[MapFind(map, stringIndex)].value
    ELSE NotFound

\* process_xml: info::binaries::header header = { 0, }, then the magic and
\* the hash of the sizes
FreshHeader ==
    [m_magic |-> MAGIC_HDR, m_sizes_hash |-> SIZES_HASH,
     m_build_strindex |-> 0, m_machines_count |-> 0, m_biossets_count |-> 0,
     m_roms_count |-> 0, m_disks_count |-> 0, m_devices_count |-> 0,
     m_slots_count |-> 0, m_slot_options_count |-> 0, m_features_count |-> 0,
     m_chips_count |-> 0, m_displays_count |-> 0, m_samples_count |-> 0,
     m_configurations_count |-> 0, m_configuration_settings_count |-> 0,
     m_configuration_conditions_count |-> 0, m_software_lists_count |-> 0,
     m_ram_options_count |-> 0]

FinalHeader ==
    [header EXCEPT
        !.m_machines_count = AsInt(to_uint32(SizeT(Len(m_machines)))),
        !.m_biossets_count = AsInt(to_uint32(SizeT(Len(m_biossets)))),
        !.m_roms_count = AsInt(to_uint32(SizeT(Len(m_roms)))),
        !.m_disks_count = AsInt(to_uint32(SizeT(Len(m_disks)))),
        !.m_devices_count = AsInt(to_uint32(SizeT(Len(m_devices)))),
        !.m_slots_count = AsInt(to_uint32(SizeT(Len(m_slots)))),
        !.m_slot_options_count = AsInt(to_uint32(SizeT(Len(m_slot_options)))),
        !.m_features_count = AsInt(to_uint32(SizeT(Len(m_features)))),
        !.m_chips_count = AsInt(to_uint32(SizeT(Len(m_chips)))),
        !.m_displays_count = AsInt(to_uint32(SizeT(Len(m_displays)))),
        !.m_samples_count = AsInt(to_uint32(SizeT(Len(m_samples)))),
        !.m_configurations_count = AsInt(to_uint32(SizeT(Len(m_configurations)))),
        !.m_configuration_settings_count =
            AsInt(to_uint32(SizeT(Len(m_configuration_settings)))),
        !.m_configuration_conditions_count =
            AsInt(to_uint32(SizeT(Len(m_configuration_conditions)))),
        !.m_software_lists_count =
            AsInt(to_uint32(SizeT(Len(m_software_lists)))),
        !.m_ram_options_count = AsInt(to_uint32(SizeT(Len(m_ram_options))))]

\* xml.parse returns true; the rest of process_xml runs
EndDocument ==
    /\ UNCHANGED <<runVars, utilVars, windowVars>>
    /\ Parsing
    /\ xmlPath # "document"
    /\ LET st1 == [m_strings EXCEPT
                      !.m_data = embed_value(@, MAGIC_STRINGTABLE_END)]
           g == string_table_get(st1, <<>>)
       IN
        \E p \in SortOrders(st1, m_machines) :
            LET sorted == [i \in 1..Len(m_machines) |-> m_machines[p[i]]]
                map == machineIndexMap(g.ref, sorted)
            IN
            /\ m_strings' = g.st
            /\ header' = FinalHeader
            /\ m_salted_header' = salt(HeaderBytes(FinalHeader), SaltBytes)
            /\ m_machines' =
                 [i \in 1..Len(sorted) |->
                    [sorted[i] EXCEPT
                        !.m_clone_of_machindex =
                            machineIndexFromStringIndex(map, @),
                        !.m_rom_of_machindex =
                            machineIndexFromStringIndex(map, @)]]
    /\ pxResult' = "true"
    /\ error_message' = ""
    /\ xmlPath' = "end"
    /\ UNCHANGED <<getLog, m_roms, m_configurations, m_configuration_settings,
                   m_slots, m_slot_options, moreTables, document, calls,
                   taskVars>>

\* process_xml is called on the builder once more, after it has returned:
\* the two assertions at its entry, then a new header and a new parser
ProcessXmlAgain ==
    /\ UNCHANGED <<runVars, utilVars, windowVars>>
    /\ taskPc = "process_xml"
    /\ pxResult \in {"true", "false"}
    /\ calls < MaxCalls
    /\ calls' = calls + 1
    /\ IF ~(m_machines = <<>>) \/ ~(m_devices = <<>>)
       THEN /\ pxResult' = "assertion failed"
            /\ UNCHANGED <<header, xmlPath, document>>
       ELSE /\ pxResult' = "running"
            /\ header' = FreshHeader
            /\ xmlPath' = "document"
            /\ document' = EmptyDocument
    /\ UNCHANGED <<stringVars, tableVars, m_salted_header, error_message,
                   taskVars>>

\* ------------------------------------------------------------------------
\*  ListXmlTask
\* ------------------------------------------------------------------------
\* the main thread asks the task to stop
Abort ==
    /\ UNCHANGED <<runVars, utilVars, windowVars>>
    /\ taskPc # "done"
    /\ ~m_aborted
    /\ m_aborted' = TRUE
    /\ UNCHANGED <<stringVars, tableVars, builderVars, taskPc, abortSeen,
                   fileState, resultStatus, output>>

\* an outcome that looks at the success of process_xml first
internalProcess_outcome_success_first(aborted, success) ==
    IF ~success THEN "ERROR"
    ELSE IF aborted THEN "ABORTED"
    ELSE "write"

\* an outcome that looks at the abort flag alone
internalProcess_outcome_nosuccess(aborted, success) ==
    IF aborted THEN "ABORTED" ELSE "write"

\* what internalProcess does once process_xml has returned
internalProcess_outcome(aborted, success) ==
    IF aborted THEN "ABORTED"
    ELSE IF ~success THEN "ERROR"
    ELSE "write"

\* process_xml has returned: the abort and success checks
TaskCheck ==
    /\ UNCHANGED <<runVars, utilVars, windowVars>>
    /\ taskPc = "process_xml"
    /\ pxResult # "running"
    /\ abortSeen' = m_aborted
    /\ LET outcome == internalProcess_outcome(m_aborted, pxResult = "true") IN
        IF outcome = "write"
        THEN taskPc' = "open" /\ UNCHANGED resultStatus
        ELSE taskPc' = "done" /\ resultStatus' = outcome
    /\ UNCHANGED <<stringVars, tableVars, builderVars, m_aborted, fileState,
                   output>>

\* QFile::open(WriteOnly) succeeds or fails
TaskOpenFile(opened) ==
    /\ UNCHANGED <<runVars, utilVars, windowVars>>
    /\ taskPc = "open"
    /\ IF opened
       THEN /\ fileState' = "open"
            /\ taskPc' = "emit"
            /\ UNCHANGED resultStatus
       ELSE /\ resultStatus' = "ERROR"
            /\ taskPc' = "done"
            /\ UNCHANGED fileState
    /\ UNCHANGED <<stringVars, tableVars, builderVars, m_aborted, abortSeen,
                   output>>

\* writeVectorData(stream, vector): the records of the table, as one block
writeVectorData(stream, name, vector) ==
    Append(stream, [block |-> name, data |-> vector])

\* an emit_info that writes the disks before the roms
emit_info_disks_first ==
    LET s0 == <<[block |-> "header", data |-> m_salted_header]>>
        s1 == writeVectorData(s0, "machine", m_machines)
        s2 == writeVectorData(s1, "biosset", m_biossets)
        s3 == writeVectorData(s2, "disk", m_disks)
        s4 == writeVectorData(s3, "rom", m_roms)
        s5 == writeVectorData(s4, "device", m_devices)
        s6 == writeVectorData(s5, "slot", m_slots)
        s7 == writeVectorData(s6, "slotoption", m_slot_options)
        s8 == writeVectorData(s7, "feature", m_features)
        s9 == writeVectorData(s8, "chip", m_chips)
        s10 == writeVectorData(s9, "display", m_displays)
        s11 == writeVectorData(s10, "sample", m_samples)
        s12 == writeVectorData(s11, "configuration", m_configurations)
        s13 == writeVectorData(s12, "confsetting", m_configuration_settings)
        s14 == writeVectorData(s13, "condition", m_configuration_conditions)
        s15 == writeVectorData(s14, "softwarelist", m_software_lists)
        s16 == writeVectorData(s15, "ramoption", m_ram_options)
    IN writeVectorData(s16, "strings", m_strings.m_data)

\* info::database_builder::emit_info: what it writes to the empty file
emit_info ==
    LET s0 == <<[block |-> "header", data |-> m_salted_header]>>
        s1 == writeVectorData(s0, "machine", m_machines)
        s2 == writeVectorData(s1, "biosset", m_biossets)
        s3 == writeVectorData(s2, "rom", m_roms)
        s4 == writeVectorData(s3, "disk", m_disks)
        s5 == writeVectorData(s4, "device", m_devices)
        s6 == writeVectorData(s5, "slot", m_slots)
        s7 == writeVectorData(s6, "slotoption", m_slot_options)
        s8 == writeVectorData(s7, "feature", m_features)
        s9 == writeVectorData(s8, "chip", m_chips)
        s10 == writeVectorData(s9, "display", m_displays)
        s11 == writeVectorData(s10, "sample", m_samples)
        s12 == writeVectorData(s11, "configuration", m_configurations)
        s13 == writeVectorData(s12, "confsetting", m_configuration_settings)
        s14 == writeVectorData(s13, "condition", m_configuration_conditions)
        s15 == writeVectorData(s14, "softwarelist", m_software_lists)
        s16 == writeVectorData(s15, "ramoption", m_ram_options)
    IN writeVectorData(s16, "strings", m_strings.m_data)

\* builder.emit_info(file), then process posts SUCCESS
TaskEmit ==
    /\ UNCHANGED <<runVars, utilVars, windowVars>>
    /\ taskPc = "emit"
    /\ fileState' = "written"
    /\ output' = emit_info
    /\ resultStatus' = "SUCCESS"
    /\ taskPc' = "done"
    /\ UNCHANGED <<stringVars, tableVars, builderVars, m_aborted, abortSeen>>

\* the error message of the ListXmlResultEvent posted with status ERROR
ListXmlErrorMessage ==
    IF pxResult # "true" THEN "Error parsing XML from MAME -listxml"
    ELSE "Could not open file"

\* MainWindow::onListXmlCompleted: the message boxes after it
onListXmlCompleted_messages(shown, status, errorMessage) ==
    IF status = "ERROR"
    THEN Append(shown, IF errorMessage # "" THEN errorMessage
                       ELSE "Error building MAME info database")
    ELSE shown

\* MainWindow::onListXmlCompleted, on the main thread; the load of the new
\* file succeeds unless the file has gone meanwhile
OnListXmlCompleted ==
    /\ taskPc = "done"
    /\ resultStatus # "none"
    /\ taskPc' = "handled"
    /\ messageBoxes' = onListXmlCompleted_messages(messageBoxes, resultStatus,
            IF resultStatus = "ERROR" THEN ListXmlErrorMessage ELSE "")
    /\ IF resultStatus = "SUCCESS"
       THEN \E loaded \in BOOLEAN :
                m_info_db' = IF loaded THEN "loaded" ELSE m_info_db
       ELSE UNCHANGED m_info_db
    /\ UNCHANGED <<stringVars, tableVars, builderVars, m_aborted, abortSeen,
                   fileState, resultStatus, output, runVars, utilVars, dbFile,
                   mameExecutablePresent, m_mame_version, checkPc, checkStatus,
                   rebuildStarted, prompts>>

\* ------------------------------------------------------------------------
\*  Specification of the string table alone: a sequence of get calls
\* ------------------------------------------------------------------------
StringsInit ==
    /\ m_strings = string_table_ctor
    /\ getLog = <<>>

\* a freshly constructed database_builder, process_xml entered
BuilderInit ==
    /\ header = FreshHeader
    /\ m_salted_header = <<>>
    /\ m_machines = <<>>
    /\ m_roms = <<>>
    /\ m_configurations = <<>>
    /\ m_configuration_settings = <<>>
    /\ m_slots = <<>>
    /\ m_slot_options = <<>>
    /\ m_biossets = <<>>
    /\ m_disks = <<>>
    /\ m_devices = <<>>
    /\ m_features = <<>>
    /\ m_chips = <<>>
    /\ m_displays = <<>>
    /\ m_samples = <<>>
    /\ m_configuration_conditions = <<>>
    /\ m_software_lists = <<>>
    /\ m_ram_options = <<>>
    /\ document = EmptyDocument
    /\ calls = 1
    /\ xmlPath = "document"
    /\ pxResult = "running"
    /\ error_message = ""

\* a RunMachineTask whose process has just been entered by the worker thread
RunInit ==
    /\ m_chatterEnabled = FALSE
    /\ m_startedWithHashPaths = FALSE
    /\ m_messageQueue = <<>>
    /\ submitted = <<>>
    /\ childState = "running"
    /\ childStatus = "NONE"
    /\ childStderr = ""
    /\ notified = FALSE
    /\ childOut = <<>>
    /\ linesWritten = 0
    /\ exitAt = "running"
    /\ childIn = <<>>
    /\ workerPc = "inaugural"
    /\ linesRead = <<>>
    /\ callStart = 0
    /\ lastCall = <<>>
    /\ returned = 0
    /\ events = <<>>
    /\ wire = <<>>
    /\ issuedAt = <<>>
    /\ quietEvents = <<>>

\* nothing has been salted
SaltInit ==
    /\ saltOriginal = <<>>
    /\ saltValue = <<>>
    /\ saltResults = <<>>

\* no attribute has been decoded
HexInit ==
    /\ hexSize = 1
    /\ hexInput = <<>>
    /\ hexDest = <<0>>
    /\ hexResult = <<>>

\* no substitution has been applied
SubstInit ==
    /\ substInput = <<>>
    /\ substResult = <<>>

\* no session is active: the state is the one emplaced when a session starts
StatusInit ==
    /\ m_state = [paused |-> FALSE, frameskip |-> "auto", throttled |-> TRUE]
    /\ m_pinging = FALSE
    /\ lastUpdate = <<>>
    /\ updatesApplied = 0

\* fresh Preferences: no folder has prefs of its own
PrefsInit ==
    /\ m_folder_prefs = <<>>
    /\ folderPrefsChanged = 0
    /\ prefsCall = <<>>

\* no preferences document has been loaded or saved
FileInit ==
    /\ prefsDocument = [paths |-> <<>>, machines |-> <<>>]
    /\ loadedDirectly = <<>>
    /\ loadedFirst = <<>>
    /\ savedOutput = <<>>
    /\ loadedAgain = <<>>

\* an empty sample table and no progress event
SizedInit ==
    /\ samplesSize = [hi |-> 0, lo |-> 0]
    /\ progressPosted = 0

\* the table after construction: the magic bytes, and no string
LargeInit ==
    /\ largeTable = [m_data_size |-> Len(MAGIC_STRINGTABLE_BEGIN), m_map |-> <<>>]
    /\ largeLog = <<>>

\* the PathListModel as constructed: no entries
PathsInit ==
    /\ m_entries = <<>>
    /\ m_pathCategory = "SingleFile"
    /\ pathsEnded = FALSE
    /\ outside = {}
    /\ lastPathCall = <<>>

\* no session is active
PingInit ==
    /\ sessionActive = FALSE
    /\ issued = <<>>
    /\ pendingUpdates = <<>>

\* no command has been built
CommandInit ==
    /\ commandArgs = <<>>
    /\ commandBuilt = <<>>

\* the preferences and the dialogs as constructed
FrontInit ==
    /\ PrefsInit /\ FileInit /\ SizedInit /\ LargeInit /\ CommandInit
    /\ PingInit /\ PathsInit

\* a main window that has not checked the info database, and no file
WindowInit ==
    /\ dbFile = [exists |-> FALSE, m_salted_header |-> <<>>, build |-> ""]
    /\ mameExecutablePresent = TRUE
    /\ m_mame_version = ""
    /\ checkPc = "idle"
    /\ checkStatus = "none"
    /\ m_info_db = "empty"
    /\ rebuildStarted = FALSE
    /\ prompts = 0
    /\ messageBoxes = <<>>

\* a ListXmlTask whose process has just called internalProcess
TaskInit ==
    /\ m_aborted = FALSE
    /\ taskPc = "process_xml"
    /\ abortSeen = FALSE
    /\ fileState = "absent"
    /\ resultStatus = "none"
    /\ output = <<>>

\* one call of string_table::get
Get(s) ==
    /\ UNCHANGED <<runVars, utilVars, windowVars>>
    /\ Len(getLog) < MaxGets
    /\ LET r == string_table_get(m_strings, s) IN
        /\ ~r.threw
        /\ m_strings' = r.st
        /\ getLog' = Append(getLog, [s |-> s, ref |-> r.ref,
                                     before |-> m_strings, after |-> r.st])
    /\ UNCHANGED <<tableVars, builderVars, taskVars>>

InitStrings ==
    StringsInit /\ BuilderInit /\ TaskInit /\ RunInit /\ SaltInit /\ HexInit
    /\ SubstInit /\ StatusInit /\ FrontInit /\ WindowInit
NextStrings == \E s \in StringPool : Get(s)
SpecStrings == InitStrings /\ [][NextStrings]_vars

IsLong(s) == Len(s) > SsoMaxLen
LongStringsGot == {getLog[i].s : i \in {j \in 1..Len(getLog) : IsLong(getLog[j].s)}}

RECURSIVE SumOfLengths(_)
SumOfLengths(S) ==
    IF S = {} THEN 0
    ELSE LET s == CHOOSE x \in S : TRUE IN Len(s) + 1 + SumOfLengths(S \ {s})

\* C1: after any sequence of get calls, looking up the reference a call
\* returned yields the string of that call, two calls with the same string
\* returned the same reference, and every long string is in the buffer once.
C1_InternRoundTrip ==
    /\ \A i \in 1..Len(getLog) :
          string_table_lookup(m_strings, getLog[i].ref) = getLog[i].s
    /\ \A i, j \in 1..Len(getLog) :
          getLog[i].s = getLog[j].s => getLog[i].ref = getLog[j].ref
    /\ Len(m_strings.m_data) =
          Len(MAGIC_STRINGTABLE_BEGIN) + SumOfLengths(LongStringsGot)

\* a long string interned twice, with another long string in between
C1_Witness ==
    /\ Len(getLog) = 3
    /\ IsLong(getLog[1].s)
    /\ IsLong(getLog[2].s)
    /\ getLog[1].s # getLog[2].s
    /\ getLog[3].s = getLog[1].s

IsSmallStringRef(ref) == has_value(tryDecodeAsSmallString(ref))

\* C17: a get of a string of exactly the small-string length returns a
\* small-string reference and leaves buffer and map as they were; a get of
\* a string one byte longer returns an offset into the buffer, the string
\* having been appended there if it was not in the map; both references
\* look up to the string
C17_ThresholdPaths ==
    \A i \in 1..Len(getLog) :
        LET g == getLog[i] IN
        /\ Len(g.s) = SsoMaxLen =>
            /\ IsSmallStringRef(g.ref)
            /\ g.after = g.before
            /\ string_table_lookup(g.after, g.ref) = g.s
        /\ Len(g.s) = SsoMaxLen + 1 =>
            /\ ~IsSmallStringRef(g.ref)
            /\ g.ref < Len(g.after.m_data)
            /\ ~InMap(g.before.m_map, g.s) =>
                /\ g.ref = Len(g.before.m_data)
                /\ g.after.m_data = g.before.m_data \o g.s \o <<0>>
                /\ InMap(g.after.m_map, g.s)
            /\ string_table_lookup(g.after, g.ref) = g.s

\* a string of the threshold length and one a byte longer were both got
C17_Witness ==
    /\ \E i \in 1..Len(getLog) : Len(getLog[i].s) = SsoMaxLen
    /\ \E i \in 1..Len(getLog) :
        /\ Len(getLog[i].s) = SsoMaxLen + 1
        /\ ~InMap(getLog[i].before.m_map, getLog[i].s)

\* the reference is the offset of the start of a NUL-terminated string of
\* the buffer: after the begin magic or after the NUL of another string
IsStringOffset(st, ref) ==
    /\ ref >= Len(MAGIC_STRINGTABLE_BEGIN)
    /\ ref < Len(st.m_data)
    /\ ref = Len(MAGIC_STRINGTABLE_BEGIN) \/ st.m_data[ref] = 0
    /\ \E k \in (ref + 1)..Len(st.m_data) : st.m_data[k] = 0
IsPrefix(a, b) == Len(a) <= Len(b) /\ a = SubSeq(b, 1, Len(a))

\* C18: every reference returned is a small-string value or the offset of
\* a NUL-terminated string of the buffer; each get leaves the bytes already
\* in the buffer where they were; and a reference looks up to its string
\* in the table as it was after every later get
C18_ReferencesStayValid ==
    /\ \A i \in 1..Len(getLog) :
        /\ IsSmallStringRef(getLog[i].ref) \/ IsStringOffset(m_strings, getLog[i].ref)
        /\ IsPrefix(getLog[i].before.m_data, getLog[i].after.m_data)
    /\ \A i, j \in 1..Len(getLog) :
        i <= j =>
            string_table_lookup(getLog[j].after, getLog[i].ref) = getLog[i].s

\* an offset handed out first is still good after another long string and
\* a small string have been got
C18_Witness ==
    /\ Len(getLog) = 3
    /\ ~IsSmallStringRef(getLog[1].ref)
    /\ ~IsSmallStringRef(getLog[2].ref)
    /\ getLog[2].ref > getLog[1].ref
    /\ IsSmallStringRef(getLog[3].ref)
    /\ string_table_lookup(m_strings, getLog[1].ref) = getLog[1].s

\* ------------------------------------------------------------------------
\*  Specification of a database build: ListXmlTask feeding one document
\* ------------------------------------------------------------------------
InitBuild ==
    StringsInit /\ BuilderInit /\ TaskInit /\ RunInit /\ SaltInit /\ HexInit
    /\ SubstInit /\ StatusInit /\ FrontInit /\ WindowInit
NextBuild ==
    \/ BeginMame
    \/ \E name \in MachineNames, refs \in References :
         BeginMachine(name, refs[1], refs[2])
    \/ BeginRom(Some(UINT32_MAX))
    \/ BeginConfiguration
    \/ BeginConfSetting
    \/ BeginSlot
    \/ BeginSlotOption
    \/ ParseError
    \/ EndDocument
SpecBuild == InitBuild /\ [][NextBuild]_vars

\* ------------------------------------------------------------------------
\*  Specification of ListXmlTask: the build of a document of one machine and
\*  its roms, the abort request of the main thread, and the file
\* ------------------------------------------------------------------------
InitListXml ==
    StringsInit /\ BuilderInit /\ TaskInit /\ RunInit /\ SaltInit /\ HexInit
    /\ SubstInit /\ StatusInit /\ FrontInit /\ WindowInit
NextListXml ==
    \/ BeginMame
    \/ \E name \in MachineNames : BeginMachine(name, <<>>, <<>>)
    \/ \E size \in SizeAttributes : BeginRom(size)
    \/ ParseError
    \/ EndDocument
    \/ Abort
    \/ TaskCheck
    \/ \E opened \in BOOLEAN : TaskOpenFile(opened)
    \/ TaskEmit
    \/ OnListXmlCompleted
SpecListXml == InitListXml /\ [][NextListXml]_vars

\* ------------------------------------------------------------------------
\*  The loader's lookup by name (info::database, not part of the builder
\*  source): a binary search of the sorted machine table
\* ------------------------------------------------------------------------
MachineName(i) == string_table_lookup(m_strings, m_machines[i + 1].m_name_strindex)

\* the first index in [lo, hi) whose name is not less than key
RECURSIVE lower_bound(_, _, _)
lower_bound(lo, hi, key) ==
    IF lo >= hi THEN lo
    ELSE LET mid == lo + ((hi - lo) \div 2) IN
         IF strcmp_less(MachineName(mid), key)
         THEN lower_bound(mid + 1, hi, key)
         ELSE lower_bound(lo, mid, key)

find_machine(key) ==
    LET i == lower_bound(0, Len(m_machines), key) IN
    IF i < Len(m_machines) /\ MachineName(i) = key THEN i ELSE NotFound

\* ------------------------------------------------------------------------
\*  Claims about the database build
\* ------------------------------------------------------------------------
Range(index, count) == index..(index + count - 1)
OwnedBy(table, owner) == {i \in 0..(Len(table) - 1) : table[i + 1].owner = owner}
Indexes(table) == 0..(Len(table) - 1)

\* every position of a child table lies in the range of exactly one parent
Partition(children, parents, index, count) ==
    \A i \in Indexes(children) :
        Cardinality({p \in 1..Len(parents) :
            i \in Range(parents[p][index], parents[p][count])}) = 1

HasMachineNamed(name) == \E k \in Indexes(m_machines) : MachineName(k) = name

\* the index field holds what the reference to name should resolve to
Resolved(index, name) ==
    IF name # <<>> /\ HasMachineNamed(name)
    THEN /\ index \in Indexes(m_machines)
         /\ MachineName(index) = name
    ELSE index = NotFound

\* C3: after process_xml succeeds clone-of and rom-of hold the index, in the
\* sorted table, of a machine of the referenced name, wherever in the document
\* that machine was declared, and "not found" when no machine has the name or
\* the attribute was absent.
C3_CrossReferences ==
    pxResult = "true" =>
        \A m \in 1..Len(m_machines) :
            /\ Resolved(m_machines[m].m_clone_of_machindex, m_machines[m].cloneof)
            /\ Resolved(m_machines[m].m_rom_of_machindex, m_machines[m].romof)

\* the first machine of the document is a clone of the second, and the second
\* names a machine that does not exist
C3_Witness ==
    /\ pxResult = "true"
    /\ \E m, n \in 1..Len(m_machines) :
        /\ m_machines[m].doc = 1
        /\ m_machines[n].doc = 2
        /\ m_machines[m].m_clone_of_machindex = n - 1
        /\ m_machines[n].cloneof = <<2, 2>>
        /\ m_machines[n].m_clone_of_machindex = NotFound

\* the names looked up: the machine names, and names no machine has
LookupKeys == MachineNames \cup {<<>>, <<2>>, <<1, 1>>, <<2, 2, 2, 2, 2, 2, 2>>}

\* C4: after finalization the machine table is sorted by name, byte by byte,
\* and the binary search by name finds a record of that name for every name
\* present and answers "not found" for every name absent.
C4_SortedLookup ==
    pxResult = "true" =>
        LET names == [i \in Indexes(m_machines) |-> MachineName(i)] IN
        /\ \A i, j \in Indexes(m_machines) :
              i < j => ~strcmp_less(names[j], names[i])
        /\ \A key \in LookupKeys :
              LET found == find_machine(key) IN
              IF \E k \in Indexes(m_machines) : names[k] = key
              THEN /\ found \in Indexes(m_machines)
                   /\ names[found] = key
              ELSE found = NotFound

\* "bbbbbb" was declared before "a" and the sort has put "a" first
C4_Witness ==
    /\ pxResult = "true"
    /\ Len(m_machines) = 2
    /\ m_machines[1].doc = 2
    /\ MachineName(0) = <<1>>
    /\ MachineName(1) = <<2, 2, 2, 2, 2, 2>>

HasRomWithSize(size) ==
    \E r \in 1..Len(m_roms) : m_roms[r].size_attribute = size

\* C5 as claimed: a rom size one more than a 32-bit field holds makes
\* process_xml fail and no file is written, the largest size that fits is
\* stored as it is.
C5_OversizeIsFatal ==
    /\ HasRomWithSize(Some(UINT32_MAX_PLUS_1)) =>
          pxResult # "true" /\ fileState = "absent"
    /\ \A r \in 1..Len(m_roms) :
          m_roms[r].size_attribute = Some(UINT32_MAX) =>
              m_roms[r].m_size = UINT32_MAX

\* C6: the output file is opened and written only when process_xml returned
\* true and hasAborted() answered false; a run that ends aborted or with a
\* failed process_xml leaves the file untouched.
C6_FileOnlyOnSuccess ==
    /\ fileState # "absent" => pxResult = "true" /\ ~abortSeen
    /\ resultStatus = "ABORTED" => fileState = "absent"
    /\ pxResult = "false" => fileState = "absent"
    /\ fileState = "written" => resultStatus = "SUCCESS"

\* the document was built, the abort came before the check: no file
C6_Witness ==
    /\ pxResult = "true"
    /\ Len(m_roms) > 0
    /\ resultStatus = "ABORTED"
    /\ fileState = "absent"

\* the last n bytes of a byte sequence
LastBytes(bytes, n) == SubSeq(bytes, Len(bytes) - n + 1, Len(bytes))

\* C19: once process_xml has returned true, the bytes of the string table
\* (what emit_info writes last) begin with the begin magic and end with the
\* end magic, the sort and the fix-up of the references having appended
\* nothing after it
C19_SentinelsFrameStrings ==
    pxResult = "true" =>
        /\ Len(m_strings.m_data) >=
                Len(MAGIC_STRINGTABLE_BEGIN) + Len(MAGIC_STRINGTABLE_END)
        /\ SubSeq(m_strings.m_data, 1, Len(MAGIC_STRINGTABLE_BEGIN))
                = MAGIC_STRINGTABLE_BEGIN
        /\ LastBytes(m_strings.m_data, Len(MAGIC_STRINGTABLE_END))
                = MAGIC_STRINGTABLE_END

\* a document with two machines, one of them with a name kept in the
\* buffer, has been finalized
C19_Witness ==
    /\ pxResult = "true"
    /\ Len(m_machines) = 2
    /\ Len(m_strings.m_data) >
            Len(MAGIC_STRINGTABLE_BEGIN) + Len(MAGIC_STRINGTABLE_END) + SsoMaxLen

\* what the task reports and what the main window shows for it
ListXmlStatusReported ==
    /\ (resultStatus # "none" /\ abortSeen) => resultStatus = "ABORTED"
    /\ resultStatus = "ERROR" =>
        /\ ~abortSeen
        /\ pxResult = "false" \/ (pxResult = "true" /\ fileState = "absent")
    /\ taskPc = "handled" =>
        (messageBoxes # <<>> <=> resultStatus = "ERROR")
\* the check that follows the return of process_xml, an abort having been
\* requested by then, ends the task with ABORTED
AbortedAtReturnReported ==
    (/\ taskPc = "process_xml"
     /\ pxResult # "running"
     /\ m_aborted
     /\ taskPc' # taskPc) => resultStatus' = "ABORTED"

\* C16: an abort requested by the time process_xml has returned makes the
\* task report ABORTED whatever process_xml returned; ERROR is reported
\* only when hasAborted() answered false and process_xml or the opening of
\* the file failed; a message box is shown for ERROR and for nothing else
C16_AbortedNotError ==
    []ListXmlStatusReported /\ [][AbortedAtReturnReported]_vars

\* the abort made the parse fail; ABORTED was reported and handled without
\* a message box
C16_Witness ==
    /\ pxResult = "false"
    /\ m_aborted
    /\ resultStatus = "ABORTED"
    /\ taskPc = "handled"
    /\ messageBoxes = <<>>

\* ------------------------------------------------------------------------
\*  RunMachineTask: main thread, child process and worker thread
\* ------------------------------------------------------------------------
MaxCommands == 2
MaxLines == 3

\* argument lists given to issue: {"p"} and {"l", "a b"}
ArgLists == { << <<"p">> >>, << <<"l">>, <<"a", " ", "b">> >> }
\* command line given to issueFullCommandLine
FullCommandLines == { <<"x">> }
\* the lines the child writes: a status push, "OK", "OK" followed by a
\* status, "ERROR"
LineKinds == {"push", "ok", "ok_status", "error"}
\* how the child ends: exit status and content of its standard error
Exits == { <<"NONE", "">>, <<"FATALERROR", "">>, <<"FATALERROR", "stderr text">>,
           <<"KILLED", "">> }

\* MessageQueue::post: the queue is first in, first out
MessageQueue_post(queue, message) == Append(queue, message)

\* a post that puts the message ahead of the waiting ones
internalPost_front(queue, type, command, status) ==
    <<[m_type |-> type, m_command |-> command, m_status |-> status]>> \o queue

\* a post that loses the termination message
internalPost_lost(queue, type, command, status) ==
    IF type = "TERMINATED" THEN queue
    ELSE Append(queue, [m_type |-> type, m_command |-> command, m_status |-> status])

\* RunMachineTask::internalPost
internalPost(queue, type, command, status) ==
    MessageQueue_post(queue,
        [m_type |-> type, m_command |-> command, m_status |-> status])

\* RunMachineTask::buildCommand, from argument i on
RECURSIVE buildCommand_from(_, _, _)
buildCommand_from(args, i, command) ==
    IF i > Len(args) THEN command \o <<"\r", "\n">>
    ELSE LET arg == args[i]
             separator == IF command # <<>> THEN <<" ">> ELSE <<>>
             needs_quotes == arg = <<>> \/ \E k \in 1..Len(arg) : arg[k] = " "
             quote == IF needs_quotes THEN <<"\"">> ELSE <<>>
         IN buildCommand_from(args, i + 1,
                command \o separator \o quote \o arg \o quote)
buildCommand(args) == buildCommand_from(args, 1, <<>>)

Posting == Len(submitted) < MaxCommands

\* an issue that writes the command to the child from the calling thread
Issue_direct(args) ==
    /\ Posting
    /\ submitted' = Append(submitted, buildCommand(args))
    /\ childIn' = Append(childIn, buildCommand(args))
    /\ UNCHANGED <<stringVars, tableVars, builderVars, taskVars, utilVars,
                   windowVars, fieldVars, m_messageQueue, childVars, workerPc,
                   linesRead, callStart, lastCall, returned, events, wire,
                   issuedAt, quietEvents>>

\* RunMachineTask::issue
Issue(args) ==
    /\ Posting
    /\ LET command == buildCommand(args) IN
        /\ m_messageQueue' = internalPost(m_messageQueue, "COMMAND", command, "INVALID")
        /\ submitted' = Append(submitted, command)
    /\ UNCHANGED <<stringVars, tableVars, builderVars, taskVars, utilVars,
                   windowVars, fieldVars, childVars,
                   workerVars>>

\* RunMachineTask::issueFullCommandLine
IssueFullCommandLine(fullCommand) ==
    /\ Posting
    /\ LET command == fullCommand \o <<"\r", "\n">> IN
        /\ m_messageQueue' = internalPost(m_messageQueue, "COMMAND", command, "INVALID")
        /\ submitted' = Append(submitted, command)
    /\ UNCHANGED <<stringVars, tableVars, builderVars, taskVars, utilVars,
                   windowVars, fieldVars, childVars,
                   workerVars>>

\* RunMachineTask::abort
AbortRun == Issue(<< <<"e", "x", "i", "t">> >>)

\* the child writes a line to its standard output
ChildEmit(kind) ==
    /\ childState = "running"
    /\ linesWritten < MaxLines
    /\ linesWritten' = linesWritten + 1
    /\ childOut' = Append(childOut, [kind |-> kind, id |-> linesWritten + 1])
    /\ UNCHANGED <<stringVars, tableVars, builderVars, taskVars, utilVars,
                   windowVars, fieldVars, mainVars,
                   childState, childStatus, childStderr, notified, exitAt,
                   workerVars>>

\* the child exits, or is killed
ChildExit(status, stderr) ==
    /\ childState = "running"
    /\ childState' = "exited"
    /\ childStatus' = status
    /\ childStderr' = stderr
    /\ exitAt' = IF workerPc = "receive" /\ m_messageQueue = <<>> THEN "queue"
                 ELSE IF workerPc = "response" THEN "response"
                 ELSE "elsewhere"
    /\ UNCHANGED <<stringVars, tableVars, builderVars, taskVars, utilVars,
                   windowVars, fieldVars, mainVars,
                   notified, childOut, linesWritten, workerVars>>

\* RunMachineTask::onChildProcessCompleted, called on the main thread once
\* the child has ended
OnChildProcessCompleted ==
    /\ childState = "exited"
    /\ childStatus # "KILLED"
    /\ ~notified
    /\ notified' = TRUE
    /\ m_messageQueue' = internalPost(m_messageQueue, "TERMINATED", <<>>, childStatus)
    /\ UNCHANGED <<stringVars, tableVars, builderVars, taskVars, utilVars,
                   windowVars, fieldVars, submitted,
                   childState, childStatus, childStderr, childOut, linesWritten,
                   exitAt, workerVars>>

\* RunMachineTask::onChildProcessKilled
OnChildProcessKilled ==
    /\ childState = "exited"
    /\ childStatus = "KILLED"
    /\ ~notified
    /\ notified' = TRUE
    /\ m_messageQueue' = internalPost(m_messageQueue, "TERMINATED", <<>>, "KILLED")
    /\ UNCHANGED <<stringVars, tableVars, builderVars, taskVars, utilVars,
                   windowVars, fieldVars, submitted,
                   childState, childStatus, childStderr, childOut, linesWritten,
                   exitAt, workerVars>>

\* MameWorkerController: the class of a line of the child
IsPush(line) == line.kind = "push"
\* the response a terminal line makes receiveResponse return
ResponseOf(line) ==
    [m_type |-> IF line.kind = "error" THEN "Error" ELSE "Ok",
     m_text |-> IF line.kind = "error" THEN "error text" ELSE "",
     m_update |-> IF line.kind = "ok_status" THEN Some(line.id) ELSE nullopt]
\* the response receiveResponse returns when the child's output has ended
EndOfFileResponse == [m_type |-> "EndOfFile", m_text |-> "", m_update |-> nullopt]
\* MameWorkerController::scrapeMameStartupError
scrapeMameStartupError == childStderr

\* the chatter callback process gives to the controller: the events posted
\* after the controller has called it
chatter(posted, type, text) ==
    IF m_chatterEnabled
    THEN Append(posted, [type |-> "Chatter", m_type |-> type, m_text |-> text])
    ELSE posted

StatusUpdateEvent(update) == [type |-> "StatusUpdate", update |-> update]
RunMachineCompletedEvent(success, errorMessage) ==
    [type |-> "RunMachineCompleted", success |-> success,
     errorMessage |-> errorMessage]

\* a receiveResponseAndHandleUpdates that posts nothing
receiveResponseAndHandleUpdates_silent(posted, response) == posted

\* a receiveResponseAndHandleUpdates that posts the status ahead of the
\* events already posted
receiveResponseAndHandleUpdates_front(posted, response) ==
    IF has_value(response.m_update)
    THEN <<[type |-> "StatusUpdate", update |-> response.m_update[1]]>> \o posted
    ELSE posted

\* RunMachineTask::receiveResponseAndHandleUpdates: the events posted once
\* controller.receiveResponse() has returned response
receiveResponseAndHandleUpdates(posted, response) ==
    IF has_value(response.m_update)
    THEN Append(posted, StatusUpdateEvent(response.m_update[1]))
    ELSE posted

\* a process that enters its loop whatever the inaugural response is
AfterInaugural_goes_on(posted, response) ==
    [pc |-> "receive", events |-> posted]

\* process, after the inaugural response: the next position of the worker
\* and the events posted
AfterInaugural(posted, response) ==
    IF response.m_type # "Ok"
    THEN [pc |-> "done",
          events |-> Append(posted, RunMachineCompletedEvent(FALSE,
                        IF response.m_text # "" THEN response.m_text
                        ELSE scrapeMameStartupError))]
    ELSE [pc |-> "receive", events |-> posted]

\* receiveResponseAndHandleUpdates returns response, lines being the lines
\* its receiveResponse call has read
ResponseReturns(lines, response, eof) ==
    LET heard == IF eof THEN events
                 ELSE chatter(events,
                        IF response.m_type = "Ok" THEN "GoodResponse"
                        ELSE "ErrorResponse", response.m_text)
        posted == receiveResponseAndHandleUpdates(heard, response)
        next == IF workerPc = "inaugural" THEN AfterInaugural(posted, response)
                ELSE [pc |-> "receive", events |-> posted]
        quiet == receiveResponseAndHandleUpdates(quietEvents, response)
    IN
    /\ events' = next.events
    /\ quietEvents' = IF workerPc = "inaugural"
                      THEN AfterInaugural(quiet, response).events
                      ELSE quiet
    /\ workerPc' = next.pc
    /\ lastCall' = <<[lines |-> lines, eof |-> eof, response |-> response,
                      posted |-> SubSeq(posted, callStart + 1, Len(posted))]>>
    /\ returned' = returned + 1
    /\ linesRead' = <<>>
    /\ callStart' = Len(next.events)

\* receiveResponse reads one line of the child: a push is passed on as a
\* status update at once, an OK or ERROR line ends the call
WorkerReadLine ==
    /\ workerPc \in {"inaugural", "response"}
    /\ childOut # <<>>
    /\ LET line == Head(childOut) IN
        /\ childOut' = Tail(childOut)
        /\ wire' = Append(wire, line)
        /\ IF IsPush(line)
           THEN /\ events' = Append(events, StatusUpdateEvent(line.id))
                /\ quietEvents' = Append(quietEvents, StatusUpdateEvent(line.id))
                /\ linesRead' = Append(linesRead, line)
                /\ UNCHANGED <<workerPc, lastCall, returned, callStart>>
           ELSE ResponseReturns(Append(linesRead, line), ResponseOf(line), FALSE)
    /\ UNCHANGED <<stringVars, tableVars, builderVars, taskVars, utilVars,
                   windowVars, fieldVars, mainVars,
                   childState, childStatus, childStderr, notified, linesWritten,
                   exitAt, childIn, issuedAt>>

\* receiveResponse finds the output of the child at its end
WorkerReadEof ==
    /\ workerPc \in {"inaugural", "response"}
    /\ childOut = <<>>
    /\ childState = "exited"
    /\ ResponseReturns(linesRead, EndOfFileResponse, TRUE)
    /\ UNCHANGED <<stringVars, tableVars, builderVars, taskVars, utilVars,
                   windowVars, fieldVars, mainVars,
                   childVars, childIn, wire, issuedAt>>

\* a loop that goes back to the queue without reading the response
process_command_no_receive(input, command) ==
    [childIn |-> Append(input, command), pc |-> "receive"]

\* a loop that the exit command ends
process_command_ends_on_exit(input, command) ==
    [childIn |-> Append(input, command),
     pc |-> IF command = <<"e", "x", "i", "t", "\r", "\n">> THEN "done"
            ELSE "response"]

\* process, case COMMAND: issueCommand, then receive the response
process_command(input, command) ==
    [childIn |-> Append(input, command), pc |-> "response"]

\* a loop that does not end on TERMINATED
process_terminated_not_done(status) == [done |-> FALSE, status |-> status]

\* process, case TERMINATED
process_terminated(status) == [done |-> TRUE, status |-> status]

\* process, after the loop: the error message of the completion event
process_errorMessage(status) ==
    IF status # "NONE"
    THEN IF childStderr # "" THEN childStderr
         ELSE IF status = "FATALERROR" THEN "Error 3 running MAME"
         ELSE "Error 1001 running MAME"
    ELSE ""

\* the loop of process takes a message from the queue
WorkerReceive ==
    /\ workerPc = "receive"
    /\ m_messageQueue # <<>>
    /\ LET message == Head(m_messageQueue) IN
        /\ m_messageQueue' = Tail(m_messageQueue)
        /\ IF message.m_type = "COMMAND"
           THEN LET next == process_command(childIn, message.m_command) IN
                /\ childIn' = next.childIn
                /\ workerPc' = next.pc
                /\ issuedAt' = Append(issuedAt,
                        [wire |-> Len(wire), events |-> Len(events)])
                /\ events' = chatter(events, "Command", "command")
                /\ UNCHANGED quietEvents
           ELSE LET next == process_terminated(message.m_status) IN
                /\ IF next.done
                   THEN \* success was never assigned on this path
                        \* (in this session and, where this is not it, in
                        \* the session with chatter disabled)
                        /\ \E success \in BOOLEAN :
                           \E quietSuccess \in
                                IF m_chatterEnabled THEN BOOLEAN ELSE {success} :
                            /\ events' = Append(events,
                                    RunMachineCompletedEvent(success,
                                        process_errorMessage(next.status)))
                            /\ quietEvents' = Append(quietEvents,
                                    RunMachineCompletedEvent(quietSuccess,
                                        process_errorMessage(next.status)))
                        /\ workerPc' = "done"
                   ELSE UNCHANGED <<events, quietEvents, workerPc>>
                /\ UNCHANGED <<childIn, issuedAt>>
    /\ callStart' = Len(events')
    /\ UNCHANGED <<stringVars, tableVars, builderVars, taskVars, utilVars,
                   windowVars, fieldVars, submitted,
                   childVars, linesRead, lastCall, returned, wire>>

\* ------------------------------------------------------------------------
\*  Specification of an emulation session
\* ------------------------------------------------------------------------
InitRun ==
    StringsInit /\ BuilderInit /\ TaskInit /\ RunInit /\ SaltInit /\ HexInit
    /\ SubstInit /\ StatusInit /\ FrontInit /\ WindowInit
NextRun ==
    \/ \E args \in ArgLists : Issue(args)
    \/ \E fullCommand \in FullCommandLines : IssueFullCommandLine(fullCommand)
    \/ AbortRun
    \/ \E kind \in LineKinds : ChildEmit(kind)
    \/ \E exit \in Exits : ChildExit(exit[1], exit[2])
    \/ OnChildProcessCompleted
    \/ OnChildProcessKilled
    \/ WorkerReadLine
    \/ WorkerReadEof
    \/ WorkerReceive
SpecRun == InitRun /\ [][NextRun]_vars

\* the worker thread keeps running, and the event loop of the main thread
\* delivers the end of the child to the task
FairRun ==
    /\ WF_vars(WorkerReadLine)
    /\ WF_vars(WorkerReadEof)
    /\ WF_vars(WorkerReceive)
    /\ WF_vars(OnChildProcessCompleted)
    /\ WF_vars(OnChildProcessKilled)
SpecRunLive == InitRun /\ [][NextRun]_vars /\ FairRun

\* ------------------------------------------------------------------------
\*  Claims about an emulation session
\* ------------------------------------------------------------------------
IsUpdateLine(line) == line.kind \in {"push", "ok_status"}
UpdateEventOf(line) == StatusUpdateEvent(line.id)
\* the status updates a sequence of lines must have been reported as
UpdatesOf(lines) ==
    LET updates == SelectSeq(lines, IsUpdateLine)
    IN [k \in 1..Len(updates) |-> UpdateEventOf(updates[k])]
PostedSince(start) == SubSeq(events, start + 1, Len(events))

C8_OneCommandInFlight ==
    /\ returned = 0 => childIn = <<>>
    /\ Len(childIn) <= returned
    /\ workerPc = "receive" => returned = Len(childIn) + 1

\* a second command waits in the queue while the first one is in flight
C8_Witness ==
    /\ workerPc = "response"
    /\ Len(childIn) = 1
    /\ returned = 1
    /\ m_messageQueue # <<>>
    /\ Head(m_messageQueue).m_type = "COMMAND"

\* the worker has taken the termination message from the queue
TerminationReceived ==
    /\ notified
    /\ \A k \in 1..Len(m_messageQueue) : m_messageQueue[k].m_type # "TERMINATED"

\* C9 (as stated, issue having no way to reject): once the worker has left
\* its loop on the termination message, every command submitted has been
\* written to the child
C9_NoCommandDiscarded ==
    (workerPc = "done" /\ TerminationReceived) => Len(childIn) = Len(submitted)

\* C10: the commands written to the child are the first of the submitted
\* commands, in the order of submission
C10_CommandOrder ==
    /\ Len(childIn) <= Len(submitted)
    /\ childIn = SubSeq(submitted, 1, Len(childIn))

\* two different commands, the second submitted before the first was
\* written, have both been written
C10_Witness ==
    /\ Len(childIn) = 2
    /\ childIn[1] # childIn[2]
    /\ m_messageQueue = <<>>

\* the completion event is the last event posted
CompletionPosted ==
    /\ events # <<>>
    /\ events[Len(events)].type = "RunMachineCompleted"

\* C11: when the child ends while the worker is blocked on the empty queue,
\* the worker eventually leaves its loop and posts the completion event,
\* no command having to be enqueued for it
C11_TerminationWakesQueueWait ==
    (exitAt = "queue") ~> (workerPc = "done" /\ CompletionPosted)

\* the child ended while the worker waited on the empty queue, no command
\* was ever submitted, and the completion event has been posted
C11_Witness ==
    /\ exitAt = "queue"
    /\ submitted = <<>>
    /\ workerPc = "done"
    /\ CompletionPosted

IsStatusUpdate(event) == event.type = "StatusUpdate"
StatusUpdates(posted) == SelectSeq(posted, IsStatusUpdate)

MaxOriginalLen == 3
MaxSaltLen == 2
\* byte values given as content and as salt
ByteValues == {0, 1, 90, 165, 255}
ByteStrings(n) == UNION {[1..k -> ByteValues] : k \in 1..n}

\* util::salt(original, salt_value)
Salt ==
    /\ saltResults = <<>>
    /\ saltResults' = <<salt(saltOriginal, saltValue)>>
    /\ UNCHANGED <<stringVars, tableVars, builderVars, taskVars, runVars,
                   saltOriginal, saltValue, hexVars, substVars, statusVars, frontVars,
                   windowVars>>

\* util::salt(salted, salt_value), as the loader applies it to a header read
Unsalt ==
    /\ Len(saltResults) = 1
    /\ saltResults' = Append(saltResults, salt(saltResults[1], saltValue))
    /\ UNCHANGED <<stringVars, tableVars, builderVars, taskVars, runVars,
                   saltOriginal, saltValue, hexVars, substVars, statusVars, frontVars,
                   windowVars>>

InitSalt ==
    /\ StringsInit /\ BuilderInit /\ TaskInit /\ RunInit /\ WindowInit
    /\ HexInit /\ SubstInit /\ StatusInit /\ FrontInit
    /\ saltOriginal \in ByteStrings(MaxOriginalLen)
    /\ saltValue \in ByteStrings(MaxSaltLen)
    /\ saltResults = <<>>
NextSalt == Salt \/ Unsalt
SpecSalt == InitSalt /\ [][NextSalt]_vars

\* C14: salting the salted bytes with the same salt gives the original
\* bytes back, one for one
C14_SaltInvolution ==
    Len(saltResults) = 2 =>
        /\ Len(saltResults[2]) = Len(saltOriginal)
        /\ saltResults[2] = saltOriginal

\* content longer than the salt, which wraps around, was changed by the
\* salt and restored
C14_Witness ==
    /\ Len(saltResults) = 2
    /\ Len(saltOriginal) = 3
    /\ Len(saltValue) = 2
    /\ saltResults[1] # saltOriginal
    /\ saltResults[1][3] # saltOriginal[3]
    /\ saltResults[2] = saltOriginal

\* ------------------------------------------------------------------------
\*  MainWindow: the check of the info database at start-up
\* ------------------------------------------------------------------------
MaxPrompts == 2

\* versions the emulator may report: none, one older than the required
\* version, and two supported ones
Versions == {"", "0.100", "0.229", "0.230"}
\* MainWindow::isMameVersionAtLeast(REQUIRED_MAME_VERSION)
isMameVersionAtLeastRequired(version) == version \in {"0.229", "0.230"}

\* a database file as emit_info writes it: the salted header, and the build
\* string its header refers to
DbFile(magic, sizes_hash, build, machines) ==
    [exists |-> TRUE,
     m_salted_header |->
        salt(HeaderBytes([FreshHeader EXCEPT
                            !.m_magic = magic, !.m_sizes_hash = sizes_hash,
                            !.m_machines_count = machines]),
             SaltBytes),
     build |-> build]
NoDbFile == [exists |-> FALSE, m_salted_header |-> <<>>, build |-> ""]
\* files on disk: none, and files whose magic, sizes hash and build are or
\* are not the expected ones
DbFiles ==
    {NoDbFile} \cup
    {DbFile(magic, sizes_hash, build, machines) :
        magic \in {MAGIC_HDR, MAGIC_HDR + 1},
        sizes_hash \in {SIZES_HASH, SIZES_HASH + 1},
        build \in {"0.229", "0.230"},
        machines \in {0, 1}}

\* info::database::load(path, expected_version): the header is un-salted,
\* its magic and sizes hash are verified, and the build is compared with
\* the expected version when one is given
database_load(file, expected_version) ==
    /\ file.exists
    /\ LET hdr == salt(file.m_salted_header, SaltBytes) IN
        /\ hdr[1] = MAGIC_HDR
        /\ hdr[2] = SIZES_HASH
    /\ (expected_version = "" \/ file.build = expected_version)

\* a check that takes a database that does not load for a good one
check_mame_info_status_trusting(present, version, loaded) ==
    IF ~present THEN "MAME_NOT_FOUND"
    ELSE IF version = "" THEN "MAME_NOT_FOUND"
    ELSE "SUCCESS"

\* MainWindow::CheckMameInfoDatabase: the status returned
check_mame_info_status(present, version, loaded) ==
    IF ~present THEN "MAME_NOT_FOUND"
    ELSE IF version = "" THEN "MAME_NOT_FOUND"
    ELSE IF ~loaded THEN "DB_NEEDS_REBUILD"
    ELSE "SUCCESS"

\* MainWindow::onVersionCompleted: the message boxes after it
onVersionCompleted_messages(shown, version) ==
    IF ~isMameVersionAtLeastRequired(version)
    THEN Append(shown, "This version of MAME doesn't seem to be supported")
    ELSE shown

\* MainWindow::CheckMameInfoDatabase, the version task it runs included
CheckMameInfoDatabase ==
    /\ checkPc = "check"
    /\ \E version \in Versions :
        LET ran == mameExecutablePresent
            new_version == IF ran THEN version ELSE m_mame_version
            loaded == database_load(dbFile, new_version)
            status == check_mame_info_status(mameExecutablePresent, new_version,
                                             loaded)
        IN
        /\ m_mame_version' = new_version
        /\ messageBoxes' = IF ran THEN onVersionCompleted_messages(messageBoxes, version)
                           ELSE messageBoxes
        /\ checkStatus' = status
        /\ m_info_db' = IF status = "SUCCESS" THEN "loaded" ELSE m_info_db
    /\ checkPc' = "switch"
    /\ UNCHANGED <<stringVars, tableVars, builderVars, taskVars, runVars,
                   utilVars, dbFile, mameExecutablePresent, rebuildStarted,
                   prompts>>

\* InitialCheckMameInfoDatabase, case SUCCESS
InitialCheckSuccess ==
    /\ checkPc = "switch"
    /\ checkStatus = "SUCCESS"
    /\ checkPc' = "done"
    /\ UNCHANGED <<stringVars, tableVars, builderVars, taskVars, runVars,
                   utilVars, dbFile, mameExecutablePresent, m_mame_version,
                   checkStatus, m_info_db, rebuildStarted, prompts,
                   messageBoxes>>

\* InitialCheckMameInfoDatabase, case MAME_NOT_FOUND: the user is asked for
\* the executable, and gives a path (of a file that exists or not) or gives up
InitialCheckPrompt(accepted, present) ==
    /\ checkPc = "switch"
    /\ checkStatus = "MAME_NOT_FOUND"
    /\ prompts < MaxPrompts
    /\ prompts' = prompts + 1
    /\ IF accepted
       THEN /\ mameExecutablePresent' = present
            /\ checkPc' = "check"
       ELSE /\ checkPc' = "done"
            /\ UNCHANGED mameExecutablePresent
    /\ UNCHANGED <<stringVars, tableVars, builderVars, taskVars, runVars,
                   utilVars, dbFile, m_mame_version, checkStatus, m_info_db,
                   rebuildStarted, messageBoxes>>

\* InitialCheckMameInfoDatabase, case DB_NEEDS_REBUILD:
\* refreshMameInfoDatabase launches the ListXmlTask
InitialCheckRebuild ==
    /\ checkPc = "switch"
    /\ checkStatus = "DB_NEEDS_REBUILD"
    /\ rebuildStarted' = mameExecutablePresent
    /\ checkPc' = "done"
    /\ UNCHANGED <<stringVars, tableVars, builderVars, taskVars, runVars,
                   utilVars, dbFile, mameExecutablePresent, m_mame_version,
                   checkStatus, m_info_db, prompts, messageBoxes>>

InitCheckDb ==
    /\ StringsInit /\ BuilderInit /\ TaskInit /\ RunInit /\ SaltInit
    /\ HexInit /\ SubstInit /\ StatusInit /\ FrontInit
    /\ dbFile \in DbFiles
    /\ mameExecutablePresent \in BOOLEAN
    /\ m_mame_version = ""
    /\ checkPc = "check"
    /\ checkStatus = "none"
    /\ m_info_db = "empty"
    /\ rebuildStarted = FALSE
    /\ prompts = 0
    /\ messageBoxes = <<>>
NextCheckDb ==
    \/ CheckMameInfoDatabase
    \/ InitialCheckSuccess
    \/ \E accepted, present \in BOOLEAN : InitialCheckPrompt(accepted, present)
    \/ InitialCheckRebuild
SpecCheckDb == InitCheckDb /\ [][NextCheckDb]_vars

\* the un-salted header of the file, or its build, is not the expected one
Mismatched(file, expected_version) ==
    /\ file.exists
    /\ \/ salt(file.m_salted_header, SaltBytes)[1] # MAGIC_HDR
       \/ salt(file.m_salted_header, SaltBytes)[2] # SIZES_HASH
       \/ file.build # expected_version
DatabaseErrors == {"Error building MAME info database"}

\* C15: when the check has gone as far as loading the database (the
\* executable is there and reported a version) and the file's magic, sizes
\* hash or build is not the expected one, the check returns
\* DB_NEEDS_REBUILD, nothing is loaded, no database error is shown, and the
\* initial check ends with a rebuild started
C15_MismatchNeedsRebuild ==
    (/\ checkPc \in {"switch", "done"}
     /\ mameExecutablePresent
     /\ m_mame_version # ""
     /\ Mismatched(dbFile, m_mame_version)) =>
        /\ checkStatus = "DB_NEEDS_REBUILD"
        /\ m_info_db = "empty"
        /\ \A k \in 1..Len(messageBoxes) : messageBoxes[k] \notin DatabaseErrors
        /\ checkPc = "done" => rebuildStarted

\* a file with the right magic and sizes hash, built by another version
\* of the emulator, has started a rebuild
C15_Witness ==
    /\ checkPc = "done"
    /\ rebuildStarted
    /\ dbFile.exists
    /\ salt(dbFile.m_salted_header, SaltBytes)[1] = MAGIC_HDR
    /\ salt(dbFile.m_salted_header, SaltBytes)[2] = SIZES_HASH
    /\ dbFile.build # m_mame_version
    /\ messageBoxes = <<>>

\* a step of one of the operations the controlling thread calls
MainThreadStep ==
    \/ \E args \in ArgLists : Issue(args)
    \/ \E fullCommand \in FullCommandLines : IssueFullCommandLine(fullCommand)
    \/ AbortRun
    \/ OnChildProcessCompleted
    \/ OnChildProcessKilled
\* a step of process on the worker thread
WorkerThreadStep == WorkerReadLine \/ WorkerReadEof \/ WorkerReceive
\* what the worker reads and writes apart from the queue: its position
\* and locals, the streams of the child, the events it posts and the
\* fields of the task it reads
WorkerOwned ==
    <<childIn, childOut, workerPc, linesRead, callStart, lastCall, returned,
      events, wire, issuedAt, m_chatterEnabled>>
\* what the controlling thread writes apart from the queue
MainOwned == <<submitted, notified, m_startedWithHashPaths>>

HexChars == {48, 57, 65, 102, 103}
HexStrings == UNION {[1..k -> HexChars] : k \in 0..MaxHexLen}
\* the attributes.get<std::string> results given to binaryFromHex
HexAttributes == {nullopt} \cup {Some(s) : s \in HexStrings}

\* binaryFromHex(dest, attributes.get<std::string>(name))
DecodeHex(oob) ==
    /\ hexResult = <<>>
    /\ hexResult' = <<binaryFromHex(hexDest, hexInput, oob)>>
    /\ UNCHANGED <<stringVars, tableVars, builderVars, taskVars, runVars,
                   saltVars, hexSize, hexInput, hexDest, substVars, statusVars, frontVars,
                   windowVars>>

InitHex ==
    /\ StringsInit /\ BuilderInit /\ TaskInit /\ RunInit /\ SaltInit
    /\ SubstInit /\ StatusInit /\ FrontInit /\ WindowInit
    /\ hexSize \in 1..MaxFieldSize
    /\ hexInput \in HexAttributes
    /\ hexDest \in {[i \in 1..hexSize |-> b] : b \in {0, 255}}
    /\ hexResult = <<>>
NextHex == \E oob \in OutOfRangeReads : DecodeHex(oob)
SpecHex == InitHex /\ [][NextHex]_vars

\* the bytes that the leading pairs of hex digits of s stand for, at most n
RECURSIVE LeadingBytes(_, _)
LeadingBytes(s, n) ==
    IF n = 0 \/ Len(s) < 2 \/ ~has_value(hexDigit(s[1]))
             \/ ~has_value(hexDigit(s[2]))
    THEN <<>>
    ELSE <<hexDigit(s[1])[1] * 16 + hexDigit(s[2])[1]>>
            \o LeadingBytes(SubSeq(s, 3, Len(s)), n - 1)

\* C22: the decoder returns; the field holds the bytes decoded before the
\* first missing or non-hex digit and zeros after them; the result is true
\* exactly when all N bytes were decoded (an absent attribute: all zero,
\* false)
C22_HexDecodeZeroPads ==
    hexResult # <<>> =>
        LET r == hexResult[1]
            decoded == IF has_value(hexInput)
                       THEN LeadingBytes(hexInput[1], hexSize) ELSE <<>>
        IN
        /\ ~r.terminated
        /\ \A i \in 1..hexSize :
                r.dest[i] = IF i <= Len(decoded) THEN decoded[i] ELSE 0
        /\ r.result = (Len(decoded) = hexSize)

\* the same with the reads outside the string left aside: what a build
\* without checks does
C22_UncheckedBuild ==
    (hexResult # <<>> /\ ~hexResult[1].terminated) =>
        LET r == hexResult[1]
            decoded == IF has_value(hexInput)
                       THEN LeadingBytes(hexInput[1], hexSize) ELSE <<>>
        IN
        /\ \A i \in 1..hexSize :
                r.dest[i] = IF i <= Len(decoded) THEN decoded[i] ELSE 0
        /\ r.result = (Len(decoded) = hexSize)

\* ------------------------------------------------------------------------
\*  Specification of a builder fed documents with every kind of element,
\*  and of the file ListXmlTask writes from it
\* ------------------------------------------------------------------------
\* values of an enumerated attribute: absent, or a token no parser knows
UnknownTokens == {nullopt, Some("bogus")}
\* values of the type attribute of a feature: a token of the parser, and one
\* it does not know
FeatureTypes == {Some("sound"), Some("bogus")}
\* values of a sha1 attribute: absent, "0000" and "0"
Sha1Attributes == {nullopt, Some(<<48, 48, 48, 48>>), Some(<<48>>)}

InitDocument ==
    StringsInit /\ BuilderInit /\ TaskInit /\ RunInit /\ SaltInit /\ HexInit
    /\ SubstInit /\ StatusInit /\ FrontInit /\ WindowInit
NextDocument ==
    \/ BeginMame
    \/ BeginMachine(<<1>>, <<>>, <<>>)
    \/ BeginRom(nullopt)
    \/ BeginConfiguration
    \/ BeginConfSetting
    \/ \E relation \in UnknownTokens : BeginCondition(relation)
    \/ BeginSlot
    \/ BeginSlotOption
    \/ BeginBiosset(nullopt)
    \/ \E sha1 \in Sha1Attributes, oob \in OutOfRangeReads :
            BeginDisk(sha1, Some("bogus"), oob)
    \/ \E type \in FeatureTypes : BeginFeature(type)
    \/ BeginChip(nullopt)
    \/ BeginDisplay(nullopt)
    \/ BeginSample
    \/ BeginDevice(nullopt)
    \/ BeginSoftwareList(nullopt)
    \/ BeginRamOption(nullopt)
    \/ ParseError
    \/ EndDocument
    \/ TaskCheck
    \/ \E opened \in BOOLEAN : TaskOpenFile(opened)
    \/ TaskEmit
SpecDocument == InitDocument /\ [][NextDocument]_vars

\* ------------------------------------------------------------------------
\*  Specification of a builder that process_xml is called on repeatedly
\* ------------------------------------------------------------------------
InitReuse ==
    StringsInit /\ BuilderInit /\ TaskInit /\ RunInit /\ SaltInit /\ HexInit
    /\ SubstInit /\ StatusInit /\ FrontInit /\ WindowInit
NextReuse ==
    \/ BeginMame
    \/ \E name \in MachineNames : BeginMachine(name, <<>>, <<>>)
    \/ BeginRom(nullopt)
    \/ BeginDevice(nullopt)
    \/ ParseError
    \/ EndDocument
    \/ ProcessXmlAgain
SpecReuse == InitReuse /\ [][NextReuse]_vars

\* C21: a builder runs process_xml at most once: a call on a builder that
\* has been fed a document fails the assertion at entry and builds nothing,
\* so that where a database was built and a later call was made, that call
\* failed the assertion
C21_SingleUse ==
    (calls > 1 /\ m_salted_header # <<>>) => pxResult = "assertion failed"

\* ------------------------------------------------------------------------
\*  Claims on the builder fed documents with every kind of element
\* ------------------------------------------------------------------------
\* the elements of a kind of the document, numbered in document order
ElementsOf(kind) == 1..document[kind]

\* a table holds one record for each element of a kind, and the records of
\* one parent are in the order of their elements
OnePerElement(table, kind) ==
    /\ Len(table) = Cardinality(ElementsOf(kind))
    /\ \A i \in 1..Len(table) : table[i].elem \in ElementsOf(kind)
    /\ \A i, j \in 1..Len(table) :
            (i < j /\ table[i].owner = table[j].owner)
                => table[i].elem < table[j].elem
    /\ \A i, j \in 1..Len(table) : i # j => table[i].elem # table[j].elem

\* the child tables hold one record per element, in document order
ChildrenInDocumentOrder ==
    /\ OnePerElement(m_roms, "rom")
    /\ OnePerElement(m_configurations, "configuration")
    /\ OnePerElement(m_configuration_settings, "confsetting")
    /\ OnePerElement(m_configuration_conditions, "condition")
    /\ OnePerElement(m_slots, "slot")
    /\ OnePerElement(m_slot_options, "slotoption")
    /\ OnePerElement(m_biossets, "biosset")
    /\ OnePerElement(m_disks, "disk")
    /\ OnePerElement(m_devices, "device")
    /\ OnePerElement(m_features, "feature")
    /\ OnePerElement(m_chips, "chip")
    /\ OnePerElement(m_displays, "display")
    /\ OnePerElement(m_samples, "sample")
    /\ OnePerElement(m_software_lists, "softwarelist")
    /\ OnePerElement(m_ram_options, "ramoption")

\* the machine table holds one record per machine element, in document order
MachinesInDocumentOrder ==
    /\ Len(m_machines) = Cardinality(ElementsOf("machine"))
    /\ \A i, j \in 1..Len(m_machines) :
            i < j => m_machines[i].doc < m_machines[j].doc

\* C23: missing attributes, unknown enum tokens and malformed checksum hex
\* never abort the build, and after process_xml succeeds every record table
\* holds exactly one record per element of the document, in document order
\* within each parent
C23_NoRecordDropped ==
    /\ pxResult # "terminated"
    /\ pxResult = "true" =>
            (MachinesInDocumentOrder /\ ChildrenInDocumentOrder)

\* the record tables, in the fixed order of the file
TablesInFileOrder ==
    <<[kind |-> "machine", records |-> m_machines],
      [kind |-> "biosset", records |-> m_biossets],
      [kind |-> "rom", records |-> m_roms],
      [kind |-> "disk", records |-> m_disks],
      [kind |-> "device", records |-> m_devices],
      [kind |-> "slot", records |-> m_slots],
      [kind |-> "slotoption", records |-> m_slot_options],
      [kind |-> "feature", records |-> m_features],
      [kind |-> "chip", records |-> m_chips],
      [kind |-> "display", records |-> m_displays],
      [kind |-> "sample", records |-> m_samples],
      [kind |-> "configuration", records |-> m_configurations],
      [kind |-> "confsetting", records |-> m_configuration_settings],
      [kind |-> "condition", records |-> m_configuration_conditions],
      [kind |-> "softwarelist", records |-> m_software_lists],
      [kind |-> "ramoption", records |-> m_ram_options]>>

\* the file has been written
Emitted == fileState = "written"

\* C24: the emitted stream is the salted header, then the sixteen record
\* tables in the fixed order, then the bytes of the string table, and each
\* count of the un-salted header is the number of records emitted for its
\* table
C24_StreamLayout ==
    Emitted =>
        /\ Len(output) = Len(TablesInFileOrder) + 2
        /\ output[1] = [block |-> "header", data |-> m_salted_header]
        /\ \A k \in 1..Len(TablesInFileOrder) :
                /\ output[k + 1].block = TablesInFileOrder[k].kind
                /\ output[k + 1].data = TablesInFileOrder[k].records
        /\ output[Len(output)] = [block |-> "strings", data |-> m_strings.m_data]
        /\ LET unsalted == salt(output[1].data, SaltBytes) IN
            \A k \in 1..Len(TablesInFileOrder) :
                unsalted[k + 3] = Len(output[k + 1].data)

\* a file has been written from a builder that holds a machine, a rom and
\* a disk
C24_Witness ==
    /\ Emitted
    /\ m_machines # <<>>
    /\ m_roms # <<>>
    /\ m_disks # <<>>

\* ------------------------------------------------------------------------
\*  Claims about the end of an emulation session
\* ------------------------------------------------------------------------
\* the completion event posted
Completion == events[Len(events)]

\* the last response of the session was a structured error response
ErrorResponseProvided ==
    /\ lastCall # <<>>
    /\ lastCall[1].response.m_type = "Error"

\* the message that names the status code
GenericMessage(status) ==
    IF status = "FATALERROR" THEN "Error 3 running MAME"
    ELSE "Error 1001 running MAME"

\* C25: when the child exits during an active session with a status other
\* than NONE, the completion event carries a non-empty message: the
\* structured error response if the protocol provided one, otherwise the
\* content of the child's error stream, otherwise a message naming the
\* status code
C25_ExitMessagePreference ==
    (workerPc = "done" /\ TerminationReceived /\ childStatus # "NONE") =>
        /\ CompletionPosted
        /\ Completion.errorMessage # ""
        /\ Completion.errorMessage =
                IF ErrorResponseProvided THEN lastCall[1].response.m_text
                ELSE IF childStderr # "" THEN childStderr
                ELSE GenericMessage(childStatus)

\* the inaugural response has been received and is not OK
InauguralFailed ==
    /\ returned = 1
    /\ lastCall[1].response.m_type # "Ok"

\* the messages of the queue that are commands
QueuedCommands ==
    [k \in 1..Len(m_messageQueue) |-> m_messageQueue[k].m_command]

\* C26: if the inaugural response is not OK the worker never reads the
\* queue and never issues a command, and reports a failure whose message
\* is the response text when that is non-empty, and otherwise the text
\* scraped from the child's error output
C26_InauguralFailure ==
    InauguralFailed =>
        /\ workerPc = "done"
        /\ childIn = <<>>
        /\ issuedAt = <<>>
        /\ SelectSeq(QueuedCommands, LAMBDA c : c # <<>>) = submitted
        /\ CompletionPosted
        /\ Completion.success = FALSE
        /\ Completion.errorMessage =
                IF lastCall[1].response.m_text # ""
                THEN lastCall[1].response.m_text
                ELSE scrapeMameStartupError

\* the child ended before any response, having written to its standard
\* error, while a command was waiting in the queue
C26_Witness ==
    /\ InauguralFailed
    /\ lastCall[1].response.m_type = "EndOfFile"
    /\ childStderr # ""
    /\ submitted # <<>>
    /\ notified

\* the command abort issues
ExitCommand == <<"e", "x", "i", "t", "\r", "\n">>

\* C27: abort does nothing but enqueue one "exit" command; the loop of the
\* worker ends only on a TERMINATED message, which the process-exit
\* callback posts, and a COMMAND message, the exit command included, makes
\* the worker issue the command and wait for its response
C27_AbortOnlyEnqueues ==
    [][/\ (submitted' = Append(submitted, ExitCommand)) =>
            /\ m_messageQueue' = Append(m_messageQueue,
                    [m_type |-> "COMMAND", m_command |-> ExitCommand,
                     m_status |-> "INVALID"])
            /\ UNCHANGED <<childVars, workerVars>>
       /\ (workerPc = "receive" /\ workerPc' = "done") =>
            /\ m_messageQueue # <<>>
            /\ Head(m_messageQueue).m_type = "TERMINATED"
            /\ notified
       /\ (workerPc = "receive" /\ workerPc' # workerPc
            /\ Head(m_messageQueue).m_type = "COMMAND") =>
            /\ workerPc' = "response"
            /\ childIn' = Append(childIn, Head(m_messageQueue).m_command)
      ]_vars

\* the exit command has been written to the child and answered, and the
\* worker is back in its loop, the child not having ended
C27_Witness ==
    /\ \E i \in 1..Len(childIn) : childIn[i] = ExitCommand
    /\ workerPc = "receive"
    /\ childState = "running"

\* ------------------------------------------------------------------------
\*  Specification of the session state under status updates
\* ------------------------------------------------------------------------
MaxUpdates == 3

\* the fields of a status update, each absent or specified
PausedFields == {nullopt, Some(TRUE), Some(FALSE)}
FrameskipFields == {nullopt, Some("auto"), Some("5")}
ThrottledFields == {nullopt, Some(TRUE), Some(FALSE)}
Updates ==
    [paused : PausedFields, frameskip : FrameskipFields,
     throttled : ThrottledFields]
StateFields == {"paused", "frameskip", "throttled"}

\* status::state::update: a field of the update that is specified
\* overwrites the field of the state
state_update(state, update) ==
    [f \in StateFields |->
        IF has_value(update[f]) THEN update[f][1] ELSE state[f]]

\* a handler that takes the update for the whole state, absent fields
\* becoming those of a new session
OnStatusUpdate_replaces(update) ==
    /\ updatesApplied < MaxUpdates
    /\ m_state' = [paused |-> value_or(update.paused, FALSE),
                   frameskip |-> value_or(update.frameskip, "auto"),
                   throttled |-> value_or(update.throttled, TRUE)]
    /\ m_pinging' = FALSE
    /\ lastUpdate' = <<[before |-> m_state, update |-> update]>>
    /\ updatesApplied' = updatesApplied + 1
    /\ UNCHANGED <<stringVars, tableVars, builderVars, taskVars, runVars,
                   saltVars, hexVars, substVars, frontVars, windowVars>>

\* MainWindow::onStatusUpdate (the menu bar items it refreshes are not
\* part of the model)
OnStatusUpdate(update) ==
    /\ updatesApplied < MaxUpdates
    /\ m_state' = state_update(m_state, update)
    /\ m_pinging' = FALSE
    /\ lastUpdate' = <<[before |-> m_state, update |-> update]>>
    /\ updatesApplied' = updatesApplied + 1
    /\ UNCHANGED <<stringVars, tableVars, builderVars, taskVars, runVars,
                   saltVars, hexVars, substVars, frontVars, windowVars>>

\* a session has started; a ping may be in flight
InitStatus ==
    /\ StringsInit /\ BuilderInit /\ TaskInit /\ RunInit /\ SaltInit
    /\ HexInit /\ SubstInit /\ FrontInit /\ WindowInit
    /\ m_state = [paused |-> FALSE, frameskip |-> "auto", throttled |-> TRUE]
    /\ m_pinging \in BOOLEAN
    /\ lastUpdate = <<>>
    /\ updatesApplied = 0
NextStatus == \E update \in Updates : OnStatusUpdate(update)
SpecStatus == InitStatus /\ [][NextStatus]_vars

InitChatter ==
    /\ StringsInit /\ BuilderInit /\ TaskInit /\ SaltInit /\ HexInit
    /\ SubstInit /\ StatusInit /\ FrontInit /\ WindowInit
    /\ m_chatterEnabled = TRUE
    /\ m_startedWithHashPaths = FALSE
    /\ m_messageQueue = <<>> /\ submitted = <<>>
    /\ childState = "running" /\ childStatus = "NONE" /\ childStderr = ""
    /\ notified = FALSE /\ childOut = <<>> /\ linesWritten = 0
    /\ exitAt = "running"
    /\ childIn = <<>> /\ workerPc = "inaugural" /\ linesRead = <<>>
    /\ callStart = 0 /\ lastCall = <<>> /\ returned = 0
    /\ events = <<>> /\ wire = <<>> /\ issuedAt = <<>> /\ quietEvents = <<>>
NextChatter ==
    \/ \E args \in ArgLists : Issue(args)
    \/ \E fullCommand \in FullCommandLines : IssueFullCommandLine(fullCommand)
    \/ AbortRun
    \/ \E kind \in LineKinds : ChildEmit(kind)
    \/ \E exit \in Exits : ChildExit(exit[1], exit[2])
    \/ OnChildProcessCompleted
    \/ OnChildProcessKilled
    \/ WorkerReadLine
    \/ WorkerReadEof
    \/ WorkerReceive
SpecChatter == InitChatter /\ [][NextChatter]_vars

IsChatter(event) == event.type = "Chatter"
NotChatter(event) == ~IsChatter(event)
\* an event without the success flag of a completion event
Unflagged(event) ==
    IF event.type = "RunMachineCompleted"
    THEN [event EXCEPT !.success = FALSE] ELSE event
UnflaggedEvents(posted) == [k \in 1..Len(posted) |-> Unflagged(posted[k])]

\* C29: for the same queue contents and the same child output, the session
\* with chatter enabled and the session with chatter disabled issue the
\* same commands and receive the same responses (they are one sequence of
\* commands and one sequence of lines here) and post the same status-update
\* and completion events: the events of the two differ only in the
\* ChatterEvents
C29_ChatterTransparent ==
    SelectSeq(events, NotChatter) = quietEvents

\* the part of C29 that holds: but for the success flag of the completion
\* event, the events other than ChatterEvents are those of the session
\* with chatter disabled
C29_SameButSuccess ==
    UnflaggedEvents(SelectSeq(events, NotChatter)) = UnflaggedEvents(quietEvents)

\* a command and both kinds of response have been mirrored to the hook
C29_ChatterPosted ==
    /\ \E k \in 1..Len(events) : IsChatter(events[k]) /\ events[k].m_type = "Command"
    /\ \E k \in 1..Len(events) : IsChatter(events[k]) /\ events[k].m_type = "ErrorResponse"
    /\ \E k \in 1..Len(events) : IsChatter(events[k]) /\ events[k].m_type = "GoodResponse"
    /\ CompletionPosted

\* ------------------------------------------------------------------------
\*  Specification of the substitution of variables in a path
\* ------------------------------------------------------------------------
MaxSrcLen == 4

\* the characters of a path: '$', '(', ')', 'V' and 'x'
SrcChars == {36, 40, 41, 86, 120}
SrcStrings == UNION {[1..k -> SrcChars] : k \in 0..MaxSrcLen}

\* the callback of the test: the value of the variable V is "da", that of
\* any other name is empty
func(var_name) == IF var_name = <<86>> THEN <<100, 97>> ELSE <<>>

\* Preferences::InternalApplySubstitutions, from the character at iter on
RECURSIVE InternalApplySubstitutions_from(_, _, _, _, _)
InternalApplySubstitutions_from(src, iter, state, var_begin_iter, result) ==
    IF iter > Len(src) THEN result
    ELSE LET ch == src[iter] IN
        IF ch = 36 /\ state = "NORMAL"
        THEN InternalApplySubstitutions_from(src, iter + 1,
                "AFTER_DOLLAR_SIGN", var_begin_iter, result)
        ELSE IF ch = 40 /\ state = "AFTER_DOLLAR_SIGN"
        THEN InternalApplySubstitutions_from(src, iter + 1,
                "IN_VARIABLE_NAME", iter + 1, result)
        ELSE IF ch = 41 /\ state = "IN_VARIABLE_NAME"
        THEN InternalApplySubstitutions_from(src, iter + 1, "NORMAL",
                var_begin_iter,
                result \o func(SubSeq(src, var_begin_iter, iter - 1)))
        ELSE InternalApplySubstitutions_from(src, iter + 1, state,
                var_begin_iter,
                IF state = "NORMAL" THEN Append(result, ch) ELSE result)

InternalApplySubstitutions(src) ==
    InternalApplySubstitutions_from(src, 1, "NORMAL", 1, <<>>)

\* internalApplySubstitutions is called on the path
ApplySubstitutions ==
    /\ substResult = nullopt
    /\ substResult' = Some(InternalApplySubstitutions(substInput))
    /\ UNCHANGED <<stringVars, tableVars, builderVars, taskVars, runVars,
                   saltVars, hexVars, substInput, statusVars, frontVars, windowVars>>

InitSubst ==
    /\ StringsInit /\ BuilderInit /\ TaskInit /\ RunInit /\ SaltInit
    /\ HexInit /\ StatusInit /\ FrontInit /\ WindowInit
    /\ substInput \in SrcStrings
    /\ substResult = nullopt
NextSubst == ApplySubstitutions
SpecSubst == InitSubst /\ [][NextSubst]_vars

\* the position of the first ')' of src at or after i, 0 if there is none
RECURSIVE ClosingParen(_, _)
ClosingParen(src, i) ==
    IF i > Len(src) THEN 0
    ELSE IF src[i] = 41 THEN i ELSE ClosingParen(src, i + 1)

\* src from position i on, with every "$(NAME)" reference replaced by the
\* value of NAME and every other character copied
RECURSIVE Substituted(_, _)
Substituted(src, i) ==
    IF i > Len(src) THEN <<>>
    ELSE IF /\ src[i] = 36
            /\ i < Len(src)
            /\ src[i + 1] = 40
            /\ ClosingParen(src, i + 2) # 0
         THEN func(SubSeq(src, i + 2, ClosingParen(src, i + 2) - 1))
                \o Substituted(src, ClosingParen(src, i + 2) + 1)
         ELSE <<src[i]>> \o Substituted(src, i + 1)

\* C30: internalApplySubstitutions replaces every "$(NAME)" reference by
\* the value the callback returns for NAME and copies every other character
\* unchanged and in order, so that an input without a reference is returned
\* unchanged
C30_SubstitutionCopiesTheRest ==
    has_value(substResult) => substResult[1] = Substituted(substInput, 1)

\* ------------------------------------------------------------------------
\*  Specification of the folder prefs of Preferences
\* ------------------------------------------------------------------------
MaxSets == 3
\* "foo", "bar" and "baz"
Folders == {<<102, 111, 111>>, <<98, 97, 114>>, <<98, 97, 122>>}
\* FolderPrefs::FolderPrefs
FolderPrefs == [m_shown |-> TRUE]
FolderPrefsValues == [m_shown : BOOLEAN]
\* Preferences::GetFolderPrefs on the map prefs
GetFolderPrefsIn(prefs, folder) ==
    IF folder \in DOMAIN prefs THEN prefs[folder] ELSE FolderPrefs
GetFolderPrefs(folder) == GetFolderPrefsIn(m_folder_prefs, folder)
\* Preferences::SetFolderPrefs: default prefs are erased, others are stored;
\* the method emits nothing
SetFolderPrefs(folder, prefs) ==
    /\ Len(prefsCall) < MaxSets
    /\ m_folder_prefs' =
        IF prefs = FolderPrefs
        THEN [f \in DOMAIN m_folder_prefs \ {folder} |-> m_folder_prefs[f]]
        ELSE [f \in DOMAIN m_folder_prefs \cup {folder} |->
                IF f = folder THEN prefs ELSE m_folder_prefs[f]]
    /\ UNCHANGED folderPrefsChanged
    /\ prefsCall' = Append(prefsCall,
                           [folder |-> folder, prefs |-> prefs,
                            before |-> m_folder_prefs,
                            emitted |-> folderPrefsChanged])
    /\ UNCHANGED <<stringVars, tableVars, builderVars, taskVars, runVars,
                   saltVars, hexVars, substVars, statusVars, exceptPrefs,
                   windowVars>>

InitPrefs ==
    /\ StringsInit /\ BuilderInit /\ TaskInit /\ RunInit /\ SaltInit
    /\ HexInit /\ SubstInit /\ StatusInit /\ FrontInit /\ WindowInit
NextPrefs ==
    \E folder \in Folders, prefs \in FolderPrefsValues :
        SetFolderPrefs(folder, prefs)
SpecPrefs == InitPrefs /\ [][NextPrefs]_vars

\* the folders SetFolderPrefs was called for
FoldersSet == {prefsCall[i].folder : i \in DOMAIN prefsCall}
\* a folder never set has the default prefs
NeverSetIsDefault ==
    \A folder \in Folders \ FoldersSet : GetFolderPrefs(folder).m_shown
\* the last call gave the folder the value it had: nothing has changed
SameValueChangesNothing ==
    \A i \in DOMAIN prefsCall :
        LET call == prefsCall[i]
            after == IF i = Len(prefsCall) THEN m_folder_prefs
                     ELSE prefsCall[i + 1].before
            emitted == IF i = Len(prefsCall) THEN folderPrefsChanged
                       ELSE prefsCall[i + 1].emitted
        IN  call.prefs = GetFolderPrefsIn(call.before, call.folder) =>
                (after = call.before /\ emitted = call.emitted)
\* a call with another value is what later gets return
NewValueIsStored ==
    \A i \in DOMAIN prefsCall :
        LET call == prefsCall[i]
            after == IF i = Len(prefsCall) THEN m_folder_prefs
                     ELSE prefsCall[i + 1].before
        IN  call.prefs # GetFolderPrefsIn(call.before, call.folder) =>
                GetFolderPrefsIn(after, call.folder) = call.prefs
\* a call with another value has emitted folderPrefsChanged once
NewValueIsSignalled ==
    \A i \in DOMAIN prefsCall :
        LET call == prefsCall[i]
            emitted == IF i = Len(prefsCall) THEN folderPrefsChanged
                       ELSE prefsCall[i + 1].emitted
        IN  call.prefs # GetFolderPrefsIn(call.before, call.folder) =>
                emitted = call.emitted + 1

\* C31: a folder never set has the default prefs (shown); SetFolderPrefs
\* with the value the folder has changes nothing and emits no
\* folderPrefsChanged; with another value it makes later GetFolderPrefs
\* calls return that value and emits folderPrefsChanged exactly once
C31_FolderPrefsContract ==
    /\ NeverSetIsDefault
    /\ SameValueChangesNothing
    /\ NewValueIsStored
    /\ NewValueIsSignalled

\* ------------------------------------------------------------------------
\*  Specification of Preferences::Load and Preferences::Save
\* ------------------------------------------------------------------------
MaxPathLen == 1
MaxPathElements == 1
MaxPrefMachines == 1
\* 'a', '/', '&' and the euro sign
PrefChars == {97, 47, 38, 8364}
PrefStrings == UNION {[1..k -> PrefChars] : k \in 0..MaxPathLen}
OptionalPrefStrings == {nullopt} \cup {Some(s) : s \in PrefStrings}
\* s_path_names, of which the model follows "emu" and "roms"
s_path_names == << <<101, 109, 117>>, <<114, 111, 109, 115>> >>
\* global_path_type::COUNT: no path type
COUNT == Len(s_path_names) + 1
\* Preferences::GetPathCategory(global_path_type), the type being an index
\* of s_path_names
GetPathCategory(path_type) ==
    IF path_type = 1 THEN "FILE" ELSE "MULTIPLE_DIRECTORIES"
\* Preferences::GetPathCategory(machine_path_type)
GetMachinePathCategory(path_type) ==
    IF path_type = "LAST_SAVE_STATE" THEN "FILE" ELSE "SINGLE_DIRECTORY"
\* QDir::separator
separator == 47
\* wxFileName::IsPathSeparator
IsPathSeparator(ch) == ch = 47 \/ ch = separator
\* Preferences::EnsureDirectoryPathsHaveFinalPathSeparator
EnsureDirectoryPathsHaveFinalPathSeparator(category, path) ==
    LET isDirectory == category \in {"SINGLE_DIRECTORY", "MULTIPLE_DIRECTORIES"}
    IN  IF isDirectory /\ path # <<>> /\ ~IsPathSeparator(path[Len(path)])
        THEN Append(path, separator)
        ELSE path
\* Preferences::MachineInfo as std::map's operator[] creates it
MachineInfo ==
    [m_working_directory |-> <<>>, m_last_save_state |-> <<>>,
     m_recent_device_files |-> <<>>]
\* the paths and the machines of a Preferences object no document was
\* loaded into
FreshPreferences ==
    [m_paths |-> [i \in 1..Len(s_path_names) |-> <<>>], m_machine_info |-> <<>>]
\* m_machine_info[machine_name], which creates the entry it does not find
MachineInfoAt(prefs, machine_name) ==
    IF machine_name \in DOMAIN prefs.m_machine_info
    THEN prefs.m_machine_info[machine_name]
    ELSE MachineInfo
WithMachineInfo(prefs, machine_name, info) ==
    [prefs EXCEPT !.m_machine_info =
        [n \in DOMAIN prefs.m_machine_info \cup {machine_name} |->
            IF n = machine_name THEN info ELSE prefs.m_machine_info[n]]]
\* Preferences::SetGlobalPath
SetGlobalPath(prefs, type, path) ==
    [prefs EXCEPT !.m_paths[type] =
        EnsureDirectoryPathsHaveFinalPathSeparator(GetPathCategory(type), path)]
\* Preferences::SetMachinePath
SetMachinePath(prefs, machine_name, path_type, path) ==
    LET ensured == EnsureDirectoryPathsHaveFinalPathSeparator(
                       GetMachinePathCategory(path_type), path)
        info == MachineInfoAt(prefs, machine_name)
    IN  IF path_type = "WORKING_DIRECTORY"
        THEN WithMachineInfo(prefs, machine_name,
                             [info EXCEPT !.m_working_directory = ensured])
        ELSE WithMachineInfo(prefs, machine_name,
                             [info EXCEPT !.m_last_save_state = ensured])
\* Preferences::GetGlobalPath
GetGlobalPath(prefs, type) == prefs.m_paths[type]
\* Preferences::GetMachinePath
GetMachinePath(prefs, machine_name, path_type) ==
    IF machine_name \notin DOMAIN prefs.m_machine_info THEN <<>>
    ELSE IF path_type = "WORKING_DIRECTORY"
         THEN prefs.m_machine_info[machine_name].m_working_directory
         ELSE prefs.m_machine_info[machine_name].m_last_save_state

\* the handler of <path>: onElementBegin finds the type, onElementEnd sets
\* the path of a known type
LoadPath(prefs, e) ==
    LET known == IF has_value(e.type)
                 THEN {i \in 1..Len(s_path_names) : s_path_names[i] = e.type[1]}
                 ELSE {}
        type == IF known # {} THEN CHOOSE i \in known : TRUE ELSE COUNT
    IN  IF type < COUNT THEN SetGlobalPath(prefs, type, e.content) ELSE prefs
\* GetRecentDeviceFiles(machine, device).push_back of each recent file
RECURSIVE PushRecentFiles(_, _, _, _)
PushRecentFiles(prefs, machine_name, recentfiles, i) ==
    IF i > Len(recentfiles) THEN prefs
    ELSE LET info == MachineInfoAt(prefs, machine_name)
         IN  PushRecentFiles(
                 WithMachineInfo(prefs, machine_name,
                     [info EXCEPT !.m_recent_device_files =
                                      Append(@, recentfiles[i])]),
                 machine_name, recentfiles, i + 1)
\* the handlers of <machine> and of the recent files in it: an element
\* with no name is skipped with everything in it
LoadMachine(prefs, e) ==
    IF ~has_value(e.name) THEN prefs
    ELSE LET current_machine_name == e.name[1]
             p1 == IF has_value(e.working_directory)
                   THEN SetMachinePath(prefs, current_machine_name,
                            "WORKING_DIRECTORY", e.working_directory[1])
                   ELSE prefs
             p2 == IF has_value(e.last_save_state)
                   THEN SetMachinePath(p1, current_machine_name,
                            "LAST_SAVE_STATE", e.last_save_state[1])
                   ELSE p1
         IN  PushRecentFiles(p2, current_machine_name, e.recentfiles, 1)
RECURSIVE LoadElements(_, _, _, _)
LoadElements(prefs, elements, i, handler) ==
    IF i > Len(elements) THEN prefs
    ELSE LoadElements(IF handler = "path" THEN LoadPath(prefs, elements[i])
                      ELSE LoadMachine(prefs, elements[i]),
                      elements, i + 1, handler)
\* Preferences::Load(QIODevice &): the machines are cleared, the handlers
\* run on what xml.parse delivers, and the result is what xml.parse returns
Load(prefs, parsed) ==
    LET cleared == [prefs EXCEPT !.m_machine_info = <<>>]
        withPaths == LoadElements(cleared, parsed.paths, 1, "path")
    IN  [success |-> parsed.success,
         prefs |-> LoadElements(withPaths, parsed.machines, 1, "machine")]

\* QString::toStdString: the UTF-8 encoding of the string from position i
\* on
RECURSIVE toStdString_from(_, _)
toStdString_from(s, i) ==
    IF i > Len(s) THEN <<>>
    ELSE LET ch == s[i]
             bytes == IF ch < 128 THEN <<ch>>
                      ELSE IF ch < 2048
                           THEN <<192 + (ch \div 64), 128 + (ch % 64)>>
                           ELSE <<224 + (ch \div 4096),
                                  128 + ((ch \div 64) % 64), 128 + (ch % 64)>>
         IN  bytes \o toStdString_from(s, i + 1)
toStdString(s) == toStdString_from(s, 1)
\* "&amp;" and "&lt;"
AmpEntity == <<38, 97, 109, 112, 59>>
LtEntity == <<38, 108, 116, 59>>
\* XmlParser::escape: '&' and '<' become entities, the rest is encoded
RECURSIVE escape_from(_, _)
escape_from(s, i) ==
    IF i > Len(s) THEN <<>>
    ELSE (IF s[i] = 38 THEN AmpEntity
          ELSE IF s[i] = 60 THEN LtEntity
          ELSE toStdString(<<s[i]>>)) \o escape_from(s, i + 1)
escape(s) == escape_from(s, 1)
\* the characters the parser reads from the text of an attribute or of an
\* element from position i on: std::nullopt when the text is not well
\* formed, which a '<' or an '&' that starts no entity makes it
RECURSIVE CharacterData(_, _)
CharacterData(text, i) ==
    IF i > Len(text) THEN Some(<<>>)
    ELSE LET b == text[i]
             size == IF b = 38
                     THEN (IF /\ i + 4 <= Len(text)
                              /\ SubSeq(text, i, i + 4) = AmpEntity THEN 5
                           ELSE IF /\ i + 3 <= Len(text)
                                   /\ SubSeq(text, i, i + 3) = LtEntity THEN 4
                           ELSE 0)
                     ELSE IF b = 60 THEN 0
                     ELSE IF b < 128 THEN 1
                     ELSE IF b < 224 THEN 2 ELSE 3
             ch == IF b = 38 THEN (IF size = 5 THEN 38 ELSE 60)
                   ELSE IF size = 1 THEN b
                   ELSE IF size = 2
                        THEN (b - 192) * 64 + (text[i + 1] - 128)
                        ELSE (b - 224) * 4096 + (text[i + 1] - 128) * 64
                             + (text[i + 2] - 128)
         IN  IF size = 0 \/ i + size - 1 > Len(text) THEN nullopt
             ELSE LET rest == CharacterData(text, i + size)
                  IN  IF has_value(rest) THEN Some(<<ch>> \o rest[1])
                      ELSE nullopt

\* the machine names of the map in the order std::map keeps them
RECURSIVE SortedNames(_)
SortedNames(names) ==
    IF names = {} THEN <<>>
    ELSE LET first == CHOOSE n \in names :
                          \A other \in names \ {n} : strcmp_less(n, other)
         IN  <<first>> \o SortedNames(names \ {first})
\* what Save writes for one machine: the attributes that are not empty,
\* escaped, and the recent files as they are
SaveMachine(machine_name, info) ==
    [name |-> escape(machine_name),
     working_directory |->
         IF info.m_working_directory # <<>>
         THEN Some(escape(info.m_working_directory)) ELSE nullopt,
     last_save_state |->
         IF info.m_last_save_state # <<>>
         THEN Some(escape(info.m_last_save_state)) ELSE nullopt,
     recentfiles |-> [k \in DOMAIN info.m_recent_device_files |->
                         toStdString(info.m_recent_device_files[k])]]
\* Preferences::Save(std::ostream &): every global path, then every machine
\* that has a name and a path or a recent file
Save(prefs) ==
    LET written(machine_name) ==
            LET info == prefs.m_machine_info[machine_name]
            IN  /\ machine_name # <<>>
                /\ \/ info.m_working_directory # <<>>
                   \/ info.m_last_save_state # <<>>
                   \/ info.m_recent_device_files # <<>>
        names == SelectSeq(SortedNames(DOMAIN prefs.m_machine_info), written)
    IN  [paths |-> [i \in 1..Len(s_path_names) |->
                       [type |-> s_path_names[i],
                        content |-> escape(GetGlobalPath(prefs, i))]],
         machines |-> [k \in DOMAIN names |->
                          SaveMachine(names[k], prefs.m_machine_info[names[k]])]]
\* XmlParser::parse on what Save has written: the elements are delivered
\* to the handlers in order until one is not well formed, and the result is
\* whether all were
MinOf(S) == CHOOSE n \in S : \A other \in S : n <= other
ParsedAttribute(attribute) ==
    IF has_value(attribute) THEN CharacterData(attribute[1], 1) ELSE nullopt
AttributesParse(w) ==
    /\ has_value(CharacterData(w.name, 1))
    /\ \A a \in {w.working_directory, w.last_save_state} :
           has_value(a) => has_value(CharacterData(a[1], 1))
ParsedMachine(w, nrecent) ==
    [name |-> CharacterData(w.name, 1),
     working_directory |-> ParsedAttribute(w.working_directory),
     last_save_state |-> ParsedAttribute(w.last_save_state),
     recentfiles |-> [k \in 1..nrecent |-> CharacterData(w.recentfiles[k], 1)[1]]]
parse(written) ==
    LET path(i) == [type |-> Some(written.paths[i].type),
                    content |-> CharacterData(written.paths[i].content, 1)[1]]
        badPaths == {i \in DOMAIN written.paths :
                        ~has_value(CharacterData(written.paths[i].content, 1))}
        badRecent(w) == {k \in DOMAIN w.recentfiles :
                            ~has_value(CharacterData(w.recentfiles[k], 1))}
        badMachines == {j \in DOMAIN written.machines :
                           \/ ~AttributesParse(written.machines[j])
                           \/ badRecent(written.machines[j]) # {}}
        machine(j) == ParsedMachine(written.machines[j],
                                    Len(written.machines[j].recentfiles))
    IN  IF badPaths # {}
        THEN [success |-> FALSE,
              paths |-> [i \in 1..(MinOf(badPaths) - 1) |-> path(i)],
              machines |-> <<>>]
        ELSE IF badMachines # {}
        THEN LET j == MinOf(badMachines)
                 w == written.machines[j]
             IN  [success |-> FALSE,
                  paths |-> [i \in DOMAIN written.paths |-> path(i)],
                  machines |-> [k \in 1..(j - 1) |-> machine(k)] \o
                      (IF AttributesParse(w)
                       THEN <<ParsedMachine(w, MinOf(badRecent(w)) - 1)>>
                       ELSE <<>>)]
        ELSE [success |-> TRUE,
              paths |-> [i \in DOMAIN written.paths |-> path(i)],
              machines |-> [j \in DOMAIN written.machines |-> machine(j)]]

MaxRecent == 1
\* the <path> elements of a document: a known type, an unknown one or none
PathElements ==
    [type : {nullopt, Some(<<120>>)} \cup
            {Some(s_path_names[i]) : i \in DOMAIN s_path_names},
     content : PrefStrings]
\* the <machine> elements: "e", an empty name or none, the paths and the
\* recent files of one device
MachineElements ==
    [name : {nullopt, Some(<<>>), Some(<<101>>)},
     working_directory : OptionalPrefStrings,
     last_save_state : OptionalPrefStrings,
     recentfiles : UNION {[1..k -> PrefStrings] : k \in 0..MaxRecent}]
Documents ==
    [paths : UNION {[1..k -> PathElements] : k \in 0..MaxPathElements},
     machines : UNION {[1..k -> MachineElements] : k \in 0..MaxPrefMachines}]
\* the document is well formed: the parser delivers all of it
Delivered(doc) ==
    [success |-> TRUE, paths |-> doc.paths, machines |-> doc.machines]
\* prefs.load(buffer) on a fresh object
LoadDirectly ==
    /\ loadedDirectly = <<>>
    /\ loadedDirectly' = <<Load(FreshPreferences, Delivered(prefsDocument))>>
    /\ UNCHANGED <<stringVars, tableVars, builderVars, taskVars, runVars,
                   saltVars, hexVars, substVars, statusVars, exceptFile,
                   prefsDocument, loadedFirst, savedOutput, loadedAgain,
                   windowVars>>
\* prefs2.load(buffer) on the object that will save
LoadFirst ==
    /\ loadedFirst = <<>>
    /\ loadedFirst' = <<Load(FreshPreferences, Delivered(prefsDocument))>>
    /\ UNCHANGED <<stringVars, tableVars, builderVars, taskVars, runVars,
                   saltVars, hexVars, substVars, statusVars, exceptFile,
                   prefsDocument, loadedDirectly, savedOutput, loadedAgain,
                   windowVars>>
\* prefs2.save(stringStream)
SavePrefs ==
    /\ loadedFirst # <<>>
    /\ savedOutput = <<>>
    /\ savedOutput' = <<Save(loadedFirst[1].prefs)>>
    /\ UNCHANGED <<stringVars, tableVars, builderVars, taskVars, runVars,
                   saltVars, hexVars, substVars, statusVars, exceptFile,
                   prefsDocument, loadedDirectly, loadedFirst, loadedAgain,
                   windowVars>>
\* prefs.load(stringStream) on a fresh object
LoadAgain ==
    /\ savedOutput # <<>>
    /\ loadedAgain = <<>>
    /\ loadedAgain' = <<Load(FreshPreferences, parse(savedOutput[1]))>>
    /\ UNCHANGED <<stringVars, tableVars, builderVars, taskVars, runVars,
                   saltVars, hexVars, substVars, statusVars, exceptFile,
                   prefsDocument, loadedDirectly, loadedFirst, savedOutput,
                   windowVars>>

InitFile ==
    /\ StringsInit /\ BuilderInit /\ TaskInit /\ RunInit /\ SaltInit
    /\ HexInit /\ SubstInit /\ StatusInit /\ PrefsInit /\ SizedInit
    /\ LargeInit /\ CommandInit /\ PingInit /\ PathsInit /\ WindowInit
    /\ prefsDocument \in Documents
    /\ loadedDirectly = <<>>
    /\ loadedFirst = <<>>
    /\ savedOutput = <<>>
    /\ loadedAgain = <<>>
NextFile == LoadDirectly \/ LoadFirst \/ SavePrefs \/ LoadAgain
SpecFile == InitFile /\ [][NextFile]_vars

\* the machines of the document: the names, which are not empty
DocumentMachines ==
    {prefsDocument.machines[j].name[1] :
        j \in {k \in DOMAIN prefsDocument.machines :
                  /\ has_value(prefsDocument.machines[k].name)
                  /\ prefsDocument.machines[k].name[1] # <<>>}}
\* two Preferences objects return the same global and machine paths
SamePaths(a, b) ==
    /\ \A type \in DOMAIN s_path_names :
           GetGlobalPath(a, type) = GetGlobalPath(b, type)
    /\ \A machine_name \in DocumentMachines :
       \A path_type \in {"WORKING_DIRECTORY", "LAST_SAVE_STATE"} :
           GetMachinePath(a, machine_name, path_type) =
               GetMachinePath(b, machine_name, path_type)

\* C32: loading what Save has written into a fresh object succeeds and
\* gives the global paths and the working-directory and last-save-state
\* paths of every machine that loading the document itself gives
C32_SaveLoadRoundTrip ==
    (loadedAgain # <<>> /\ loadedDirectly # <<>>) =>
        /\ loadedAgain[1].success
        /\ SamePaths(loadedAgain[1].prefs, loadedDirectly[1].prefs)

\* ------------------------------------------------------------------------
\*  Specification of ListXmlTask::process on a document of any length: the
\*  sample table is known by its size, a std::size_t, and the records, the
\*  strings and the header are not followed
\* ------------------------------------------------------------------------
\* v + 1 on std::size_t
Increment(v) ==
    IF v.lo = Limb - 1 THEN [hi |-> v.hi + 1, lo |-> 0]
    ELSE [hi |-> v.hi, lo |-> v.lo + 1]
\* the sizes a long run of samples brings the empty table to: one and two
\* records short of what 32 bits cannot hold
LargeSizes == {[hi |-> Limb - 1, lo |-> Limb - 2], UINT32_MAX}
\* a run of that many <sample> elements inside a machine, each handled as
\* SizedSample handles one
SizedSamples(size) ==
    /\ Parsing
    /\ InMachine
    /\ samplesSize = SizeT(0)
    /\ samplesSize' = size
    /\ UNCHANGED <<stringVars, tableVars, builderVars, taskVars, runVars,
                   saltVars, hexVars, substVars, statusVars, exceptSized,
                   progressPosted, windowVars>>
\* <sample>, inside a machine: m_samples.emplace_back
SizedSample ==
    /\ Parsing
    /\ InMachine
    /\ document["sample"] < MaxChildren
    /\ Dispatch("sample")
    /\ samplesSize' = Increment(samplesSize)
    /\ UNCHANGED <<stringVars, tableVars, header, m_salted_header, xmlPath,
                   pxResult, error_message, taskVars, runVars, saltVars,
                   hexVars, substVars, statusVars, exceptSized, progressPosted,
                   windowVars>>
\* <machine>: to_uint32(m_samples.size()) throws inside xml.parse, or the
\* handler goes on and the progress callback posts a ListXmlProgressEvent
SizedMachine ==
    /\ Parsing
    /\ xmlPath # "document"
    /\ document["machine"] < MaxMachines
    /\ Dispatch("machine")
    /\ IF to_uint32_throws(samplesSize)
       THEN Throw /\ UNCHANGED <<xmlPath, progressPosted>>
       ELSE /\ xmlPath' = "machine"
            /\ progressPosted' = progressPosted + 1
            /\ UNCHANGED <<pxResult, error_message>>
    /\ UNCHANGED <<stringVars, tableVars, header, m_salted_header, taskVars,
                   runVars, saltVars, hexVars, substVars, statusVars,
                   exceptSized, samplesSize, windowVars>>
\* xml.parse returns true and process_xml finalizes the header outside its
\* try block: to_uint32(m_samples.size()) throws std::logic_error, which
\* neither process_xml nor internalProcess nor process catches, or
\* process_xml returns true
SizedEndDocument ==
    /\ Parsing
    /\ xmlPath # "document"
    /\ IF to_uint32_throws(samplesSize)
       THEN /\ taskPc' = "escaped"
            /\ UNCHANGED <<pxResult, error_message, xmlPath>>
       ELSE /\ pxResult' = "true"
            /\ error_message' = ""
            /\ xmlPath' = "end"
            /\ UNCHANGED taskPc
    /\ UNCHANGED <<stringVars, tableVars, header, m_salted_header, document,
                   calls, m_aborted, abortSeen, fileState, resultStatus, output,
                   runVars, utilVars, windowVars>>

\* process has called internalProcess, which has called process_xml
InitSized ==
    /\ StringsInit /\ BuilderInit /\ TaskInit /\ RunInit /\ SaltInit
    /\ HexInit /\ SubstInit /\ StatusInit /\ FrontInit /\ WindowInit
NextSized ==
    \/ BeginMame
    \/ SizedMachine
    \/ SizedSample
    \/ \E size \in LargeSizes : SizedSamples(size)
    \/ ParseError
    \/ SizedEndDocument
    \/ Abort
    \/ TaskCheck
    \/ \E opened \in BOOLEAN : TaskOpenFile(opened)
    \/ TaskEmit
SpecSized == InitSized /\ [][NextSized]_vars

ResultStatuses == {"SUCCESS", "ABORTED", "ERROR"}
\* C33: process posts one ListXmlResultEvent, whose status is SUCCESS,
\* ABORTED or ERROR, when it ends and none before; once it is posted no
\* progress event and no other result event is posted; and process never
\* ends by an exception that escapes it
C33_OneResultEvent ==
    [][/\ taskPc' # "escaped"
       /\ resultStatus' \in ResultStatuses <=> taskPc' = "done"
       /\ resultStatus' \in ResultStatuses \cup {"none"}
       /\ resultStatus # "none" =>
            (resultStatus' = resultStatus /\ progressPosted' = progressPosted)
      ]_vars

\* ------------------------------------------------------------------------
\*  Specification of string_table::get on a table of any size: the buffer
\*  is known by its size, the map is kept
\* ------------------------------------------------------------------------
\* string_table::get(const std::string &) on such a table
large_get(st, s) ==
    LET ssoResult == tryEncodeAsSmallString(s) IN
    IF has_value(ssoResult)
    THEN [ref |-> ssoResult[1], st |-> st, threw |-> FALSE]
    ELSE IF InMap(st.m_map, s)
    THEN [ref |-> st.m_map[MapFind(st.m_map, s)].value, st |-> st,
          threw |-> FALSE]
    ELSE IF to_uint32_throws(SizeT(st.m_data_size))
    THEN [ref |-> 0, st |-> st, threw |-> TRUE]
    ELSE LET result == AsInt(to_uint32(SizeT(st.m_data_size))) IN
         [ref |-> result,
          st |-> [m_data_size |-> st.m_data_size + Len(s) + 1,
                  m_map |-> Append(st.m_map, [key |-> s, value |-> result])],
          threw |-> FALSE]
\* one get call
LargeGet(s) ==
    /\ Len(largeLog) < MaxGets
    /\ LET r == large_get(largeTable, s) IN
        /\ ~r.threw
        /\ largeTable' = r.st
        /\ largeLog' = Append(largeLog, [s |-> s, ref |-> r.ref])
    /\ UNCHANGED <<stringVars, tableVars, builderVars, taskVars, runVars,
                   saltVars, hexVars, substVars, statusVars, exceptLarge,
                   windowVars>>
\* the sizes a long run of get calls brings the buffer to: below, at and
\* above the smallest small-string reference
LargeTableSizes == {SsoBase - 8, SsoBase - 1, SsoBase, SsoBase + 1}
\* a run of get calls, each of a string too long to be encoded and not in
\* the pool, that brings the buffer to size
LargeGets(size) ==
    /\ largeLog = <<>>
    /\ largeTable.m_data_size < size
    /\ largeTable' = [largeTable EXCEPT !.m_data_size = size]
    /\ UNCHANGED <<stringVars, tableVars, builderVars, taskVars, runVars,
                   saltVars, hexVars, substVars, statusVars, exceptLarge,
                   largeLog, windowVars>>

InitLarge ==
    /\ StringsInit /\ BuilderInit /\ TaskInit /\ RunInit /\ SaltInit
    /\ HexInit /\ SubstInit /\ StatusInit /\ FrontInit /\ WindowInit
NextLarge ==
    \/ \E s \in StringPool : LargeGet(s)
    \/ \E size \in LargeTableSizes : LargeGets(size)
SpecLarge == InitLarge /\ [][NextLarge]_vars

\* C34: two different strings never have the same reference, and the
\* reference of a string is one lookup decodes as a small string exactly
\* when get encoded it as one, whatever the size of the buffer
C34_ReferencesDisjoint ==
    /\ \A i, j \in DOMAIN largeLog :
           largeLog[i].s # largeLog[j].s => largeLog[i].ref # largeLog[j].ref
    /\ \A i \in DOMAIN largeLog :
           has_value(tryDecodeAsSmallString(largeLog[i].ref)) <=>
               has_value(tryEncodeAsSmallString(largeLog[i].s))

\* ------------------------------------------------------------------------
\*  Specification of RunMachineTask::buildCommand
\* ------------------------------------------------------------------------
MaxArgs == 2
MaxArgLen == 2
\* a letter, a space, a tab, a line feed and a double quote
ArgChars == {"a", " ", "\t", "\n", "\""}
ArgStrings == UNION {[1..k -> ArgChars] : k \in 0..MaxArgLen}
ArgVectors == UNION {[1..k -> ArgStrings] : k \in 0..MaxArgs}
\* QString command = buildCommand(args)
BuildCommand ==
    /\ commandBuilt = <<>>
    /\ commandBuilt' = <<buildCommand(commandArgs)>>
    /\ UNCHANGED <<stringVars, tableVars, builderVars, taskVars, runVars,
                   saltVars, hexVars, substVars, statusVars, exceptCommand,
                   commandArgs, windowVars>>

InitCommand ==
    /\ StringsInit /\ BuilderInit /\ TaskInit /\ RunInit /\ SaltInit
    /\ HexInit /\ SubstInit /\ StatusInit /\ PrefsInit /\ FileInit
    /\ SizedInit /\ LargeInit /\ PingInit /\ PathsInit /\ WindowInit
    /\ commandArgs \in ArgVectors
    /\ commandBuilt = <<>>
NextCommand == BuildCommand
SpecCommand == InitCommand /\ [][NextCommand]_vars

Whitespace == {" ", "\t", "\n", "\r"}
HasWhitespace(arg) == \E k \in DOMAIN arg : arg[k] \in Whitespace
\* the argument as the claim says it is written
Written(arg) ==
    IF arg = <<>> \/ HasWhitespace(arg)
    THEN <<"\"">> \o arg \o <<"\"">> ELSE arg
RECURSIVE JoinedFrom(_, _)
JoinedFrom(args, i) ==
    IF i > Len(args) THEN <<>>
    ELSE (IF i > 1 THEN <<" ">> ELSE <<>>) \o Written(args[i])
         \o JoinedFrom(args, i + 1)
\* the arguments a line splits into: whitespace outside double quotes
\* separates them, and the quotes are dropped
RECURSIVE SplitFrom(_, _, _, _, _)
SplitFrom(line, i, inQuotes, started, current) ==
    IF i > Len(line)
    THEN (IF started THEN <<current>> ELSE <<>>)
    ELSE IF line[i] = "\""
    THEN SplitFrom(line, i + 1, ~inQuotes, TRUE, current)
    ELSE IF line[i] \in Whitespace /\ ~inQuotes
    THEN (IF started THEN <<current>> ELSE <<>>)
         \o SplitFrom(line, i + 1, FALSE, FALSE, <<>>)
    ELSE SplitFrom(line, i + 1, inQuotes, TRUE, Append(current, line[i]))
\* the command without the line terminator it ends with
Line(command) == SubSeq(command, 1, Len(command) - 2)

\* C35: the command is the arguments in order, separated by single spaces,
\* each in double quotes exactly when it is empty or holds whitespace, and
\* one line terminator; it is one line, and the line splits back into the
\* arguments
C35_CommandIsOneLine ==
    commandBuilt # <<>> =>
        LET command == commandBuilt[1] IN
        /\ command = JoinedFrom(commandArgs, 1) \o <<"\r", "\n">>
        /\ \A k \in 1..(Len(command) - 2) : command[k] \notin {"\r", "\n"}
        /\ SplitFrom(Line(command), 1, FALSE, FALSE, <<>>) = commandArgs


\* ------------------------------------------------------------------------
\*  Specification of the ping timer during a session
\* ------------------------------------------------------------------------
MaxIssued == 3
MaxPending == 2
\* the status updates a response may carry
PingUpdates ==
    {[paused |-> p, frameskip |-> nullopt, throttled |-> nullopt] :
        p \in {nullopt, Some(TRUE)}}
\* the number of pings among the commands not yet answered
RECURSIVE PingsIn(_)
PingsIn(commands) ==
    IF commands = <<>> THEN 0
    ELSE (IF Head(commands) = "ping" THEN 1 ELSE 0) + PingsIn(Tail(commands))

\* MainWindow::InvokePing, on a tick of m_pingTimer
InvokePing ==
    /\ Len(issued) < MaxIssued
    /\ IF ~m_pinging /\ sessionActive
       THEN /\ m_pinging' = TRUE
            /\ issued' = Append(issued, "ping")
       ELSE UNCHANGED <<m_pinging, issued>>
    /\ UNCHANGED <<stringVars, tableVars, builderVars, taskVars, runVars,
                   saltVars, hexVars, substVars, exceptPing, windowVars,
                   m_state, lastUpdate, updatesApplied, sessionActive,
                   pendingUpdates>>

\* MainWindow::Issue of a command other than ping (pause, throttled, ...)
IssueOther ==
    /\ sessionActive
    /\ Len(issued) < MaxIssued
    /\ issued' = Append(issued, "other")
    /\ UNCHANGED <<stringVars, tableVars, builderVars, taskVars, runVars,
                   saltVars, hexVars, substVars, statusVars, exceptPing,
                   windowVars, sessionActive, pendingUpdates>>

\* RunMachineTask::receiveResponseAndHandleUpdates: the response to the
\* oldest command arrives, with or without a status update, which is posted
ReceiveResponse(m_update) ==
    /\ issued # <<>>
    /\ has_value(m_update) => Len(pendingUpdates) < MaxPending
    /\ issued' = Tail(issued)
    /\ pendingUpdates' =
         IF has_value(m_update)
         THEN Append(pendingUpdates, m_update[1]) ELSE pendingUpdates
    /\ UNCHANGED <<stringVars, tableVars, builderVars, taskVars, runVars,
                   saltVars, hexVars, substVars, statusVars, exceptPing,
                   windowVars, sessionActive>>

\* MainWindow::onStatusUpdate, for the oldest posted StatusUpdateEvent
PingStatusUpdate ==
    /\ pendingUpdates # <<>>
    /\ sessionActive
    /\ m_state' = state_update(m_state, Head(pendingUpdates))
    /\ m_pinging' = FALSE
    /\ pendingUpdates' = Tail(pendingUpdates)
    /\ UNCHANGED <<stringVars, tableVars, builderVars, taskVars, runVars,
                   saltVars, hexVars, substVars, exceptPing, windowVars,
                   lastUpdate, updatesApplied, sessionActive, issued>>

\* MainWindow::onRunMachineCompleted: the task is gone and the state reset
PingSessionEnds ==
    /\ sessionActive
    /\ sessionActive' = FALSE
    /\ issued' = <<>>
    /\ pendingUpdates' = <<>>
    /\ UNCHANGED <<stringVars, tableVars, builderVars, taskVars, runVars,
                   saltVars, hexVars, substVars, statusVars, exceptPing,
                   windowVars>>

\* MainWindow::Run at its wait for the first ping: the session is active,
\* m_pinging is set and the inaugural response is awaited
InitPing ==
    /\ StringsInit /\ BuilderInit /\ TaskInit /\ RunInit /\ SaltInit
    /\ HexInit /\ SubstInit /\ PrefsInit /\ FileInit /\ SizedInit
    /\ LargeInit /\ CommandInit /\ PathsInit /\ WindowInit
    /\ m_state = [paused |-> FALSE, frameskip |-> "auto", throttled |-> TRUE]
    /\ m_pinging = TRUE
    /\ lastUpdate = <<>>
    /\ updatesApplied = 0
    /\ sessionActive = TRUE
    /\ issued = <<"start">>
    /\ pendingUpdates = <<>>
NextPing ==
    \/ InvokePing
    \/ IssueOther
    \/ \E m_update \in {nullopt} \cup {Some(u) : u \in PingUpdates} :
           ReceiveResponse(m_update)
    \/ PingStatusUpdate
    \/ PingSessionEnds
SpecPing == InitPing /\ [][NextPing]_vars

\* a ping is issued only in a session and with no ping awaiting its reply
PingIssuedAlone ==
    [][PingsIn(issued') > PingsIn(issued) =>
           (sessionActive /\ PingsIn(issued) = 0)]_vars
\* C36: at most one ping is in flight at any time
C36_OnePingInFlight == PingsIn(issued) <= 1


\* ------------------------------------------------------------------------
\*  The completion event of a session
\* ------------------------------------------------------------------------
IsCompletion(event) == event.type = "RunMachineCompleted"
Completions(posted) == SelectSeq(posted, IsCompletion)
\* process has come to its end with the completion event as the one
\* completion event and the last event posted
CompletionIsLast ==
    /\ Len(Completions(events)) <= 1
    /\ workerPc = "done" =>
         (CompletionPosted /\ Len(Completions(events)) = 1)
\* after an inaugural response that was OK, the message of the completion
\* event is empty exactly when the termination status is NONE
CompletionMessage ==
    [][(workerPc = "receive" /\ workerPc' = "done") =>
          LET completed == events'[Len(events')]
          IN  (completed.errorMessage = "") <=>
                  (Head(m_messageQueue).m_status = "NONE")
      ]_vars

\* C37: every run of process posts exactly one completion event, as its
\* last event, and the event reports success with an empty message exactly
\* when the inaugural response was OK and the termination status NONE, and
\* failure with a non-empty message in every other case
C37_CompletionReportsOutcome ==
    [][/\ Len(Completions(events')) <= 1
       /\ workerPc = "done" => events' = events
       /\ (workerPc # "done" /\ workerPc' = "done") =>
            LET completed == events'[Len(events')]
                ok == /\ workerPc = "receive"
                      /\ Head(m_messageQueue).m_status = "NONE"
            IN  /\ IsCompletion(completed)
                /\ Len(Completions(events')) = 1
                /\ IF ok
                   THEN completed.success /\ completed.errorMessage = ""
                   ELSE ~completed.success /\ completed.errorMessage # ""
      ]_vars


\* ------------------------------------------------------------------------
\*  The reads and writes of util::binaryFromHex
\* ------------------------------------------------------------------------
\* the loop run in a build that stops at a read outside the string: it says
\* whether such a read is made
CheckedRun == util_binaryFromHex(hexDest, hexInput[1], 0, "terminate")
\* the loop run in a build without checks: pos is one past the last byte
\* written
UncheckedRun == util_binaryFromHex(hexDest, hexInput[1], 0, "terminator")
\* no byte is written beyond the size of the destination
WritesInside ==
    (hexResult # <<>> /\ has_value(hexInput)) => UncheckedRun.pos <= hexSize

\* C38: binaryFromHex never reads the hex string at a position at or beyond
\* its length and never writes the destination beyond its size, for every
\* destination size and every hex string
C38_AccessesInRange ==
    (hexResult # <<>> /\ has_value(hexInput)) =>
        /\ ~CheckedRun.terminated
        /\ UncheckedRun.pos <= hexSize


\* ------------------------------------------------------------------------
\*  Specification of PathsDialog::PathListModel
\* ------------------------------------------------------------------------
MaxEntries == 2
\* the paths given to the model: none, a path that does not exist and an
\* existing directory; none holds a native separator or a variable to
\* substitute
PathValues == {"", "a", "b"}
Directories == {"b", "b/"}
Files == {}
PathCategories == {"SingleFile", "MultipleDirectories"}
\* the results of util::string_split of a paths string that is not empty
SplitPaths == UNION {[1..k -> PathValues] : k \in 1..MaxEntries}
\* erasing at end(): the assertion ends the program, or the vector is left
\* as it is, or it drops its last element
EraseOutcomes == {"assert", "nothing", "drops_last"}

Entry(path, isValid) == [m_path |-> path, m_isValid |-> isValid]

\* PathListModel::isExpandable
isExpandable(category) ==
    category \in {"MultipleDirectories", "MultipleDirectoriesOrArchives"}
\* PathListModel::hasExpandEntry
hasExpandEntry(entries, category) ==
    \/ Len(entries) = 0
    \/ isExpandable(category) /\ entries[Len(entries)].m_path # ""
\* PathListModel::pathCount
pathCount(entries) == Len(entries)
\* PathListModel::rowCount
rowCount(entries, category) ==
    pathCount(entries) + (IF hasExpandEntry(entries, category) THEN 1 ELSE 0)

\* PathListModel::validateAndCanonicalize: the path it leaves and its result
validateAndCanonicalize(path, category) ==
    LET exists == path \in Directories \cup Files
        isDir == path \in Directories
    IN  [path |-> IF exists /\ isDir /\ path # "b/" THEN "b/" ELSE path,
         isValid |-> /\ exists
                     /\ IF category = "SingleFile" THEN ~isDir ELSE isDir]

\* the entries without the one at position (counted from 0)
RemoveAt(entries, position) ==
    SubSeq(entries, 1, position) \o SubSeq(entries, position + 2, Len(entries))

\* PathListModel::erase: the entries it leaves, whether the position was
\* outside them, and whether the assertion ended the program
erase(entries, position, outcome) ==
    IF position >= 0 /\ position < Len(entries)
    THEN [entries |-> RemoveAt(entries, position), outside |-> FALSE,
          ended |-> FALSE]
    ELSE [entries |-> IF outcome = "drops_last" /\ Len(entries) > 0
                      THEN SubSeq(entries, 1, Len(entries) - 1)
                      ELSE entries,
          outside |-> TRUE,
          ended |-> \/ outcome = "assert"
                    \/ outcome = "drops_last" /\ Len(entries) = 0]

\* PathListModel::insert
insert(entries, position) ==
    SubSeq(entries, 1, position) \o <<Entry("", TRUE)>>
        \o SubSeq(entries, position + 1, Len(entries))

\* PathListModel::setPath, called with index < rowCount()
setPath(entries, category, index, path, outcome) ==
    IF path = ""
    THEN erase(entries, index, outcome)
    ELSE LET appended == IF index = Len(entries)
                         THEN Append(entries, Entry("", TRUE)) ELSE entries
             validated == validateAndCanonicalize(path, category)
         IN  [entries |-> [appended EXCEPT ![index + 1] =
                              Entry(validated.path, validated.isValid)],
              outside |-> FALSE, ended |-> FALSE]

PathsUnchanged ==
    UNCHANGED <<stringVars, tableVars, builderVars, taskVars, runVars,
                saltVars, hexVars, substVars, statusVars, exceptPaths,
                windowVars>>

\* PathListModel::setPaths
SetPaths(paths, category) ==
    /\ ~pathsEnded
    /\ m_pathCategory' = category
    /\ m_entries' =
         [i \in DOMAIN paths |->
             LET validated == validateAndCanonicalize(paths[i], category)
             IN  Entry(validated.path, validated.isValid)]
    /\ lastPathCall' = <<[op |-> "setPaths", index |-> 0, path |-> "",
                          before |-> m_entries]>>
    /\ UNCHANGED <<pathsEnded, outside>>
    /\ PathsUnchanged

\* PathListModel::insert, called with a row of the list
Insert(position) ==
    /\ ~pathsEnded
    /\ position < rowCount(m_entries, m_pathCategory)
    /\ Len(m_entries) < MaxEntries
    /\ m_entries' = insert(m_entries, position)
    /\ lastPathCall' = <<[op |-> "insert", index |-> position, path |-> "",
                          before |-> m_entries]>>
    /\ UNCHANGED <<m_pathCategory, pathsEnded, outside>>
    /\ PathsUnchanged

\* PathsDialog::on_deleteButton_clicked for one selected row: erase is
\* called for a row that holds a path
Erase(position) ==
    /\ ~pathsEnded
    /\ position < pathCount(m_entries)
    /\ LET r == erase(m_entries, position, "assert") IN
        /\ m_entries' = r.entries
        /\ pathsEnded' = r.ended
        /\ outside' = IF r.outside
                      THEN outside \cup {[position |-> position,
                                          size |-> Len(m_entries)]}
                      ELSE outside
    /\ lastPathCall' = <<[op |-> "erase", index |-> position, path |-> "",
                          before |-> m_entries]>>
    /\ UNCHANGED m_pathCategory
    /\ PathsUnchanged

\* PathsDialog::browseForPath: setPath with the path chosen, which is not
\* empty
SetPath(index, path) ==
    /\ ~pathsEnded
    /\ path # ""
    /\ index < rowCount(m_entries, m_pathCategory)
    /\ Len(m_entries) < MaxEntries \/ index < Len(m_entries)
    /\ LET r == setPath(m_entries, m_pathCategory, index, path, "assert") IN
        /\ m_entries' = r.entries
        /\ pathsEnded' = r.ended
        /\ outside' = IF r.outside
                      THEN outside \cup {[position |-> index,
                                          size |-> Len(m_entries)]}
                      ELSE outside
    /\ lastPathCall' = <<[op |-> "setPath", index |-> index, path |-> path,
                          before |-> m_entries]>>
    /\ UNCHANGED m_pathCategory
    /\ PathsUnchanged

\* PathListModel::setData with the edit role: setPath with the text of the
\* editor
SetData(row, value, outcome) ==
    /\ ~pathsEnded
    /\ row < rowCount(m_entries, m_pathCategory)
    /\ Len(m_entries) < MaxEntries \/ row < Len(m_entries)
    /\ LET r == setPath(m_entries, m_pathCategory, row, value, outcome) IN
        /\ m_entries' = r.entries
        /\ pathsEnded' = r.ended
        /\ outside' = IF r.outside
                      THEN outside \cup {[position |-> row,
                                          size |-> Len(m_entries)]}
                      ELSE outside
    /\ lastPathCall' = <<[op |-> "setData", index |-> row, path |-> value,
                          before |-> m_entries]>>
    /\ UNCHANGED m_pathCategory
    /\ PathsUnchanged

InitPaths ==
    /\ StringsInit /\ BuilderInit /\ TaskInit /\ RunInit /\ SaltInit
    /\ HexInit /\ SubstInit /\ StatusInit /\ FrontInit /\ WindowInit
NextPaths ==
    \/ \E paths \in {<<>>} \cup SplitPaths, category \in PathCategories :
           SetPaths(paths, category)
    \/ \E position \in 0..MaxEntries : Insert(position)
    \/ \E position \in 0..MaxEntries : Erase(position)
    \/ \E index \in 0..MaxEntries, path \in PathValues : SetPath(index, path)
    \/ \E row \in 0..MaxEntries, value \in PathValues,
          outcome \in EraseOutcomes : SetData(row, value, outcome)
SpecPaths == InitPaths /\ [][NextPaths]_vars

\* no call has reached erase with a position outside the entries
NoneOutside == outside = {} /\ ~pathsEnded
\* the list has one row more than it has paths exactly when the append
\* entry is shown
AppendRowCounted ==
    (rowCount(m_entries, m_pathCategory) = pathCount(m_entries) + 1)
        <=> hasExpandEntry(m_entries, m_pathCategory)
\* the last call set an empty path
EmptyPathSet ==
    /\ lastPathCall # <<>>
    /\ lastPathCall[1].op \in {"setPath", "setData"}
    /\ lastPathCall[1].path = ""
\* setting an empty path removed the entry of its row and no other
OnlyThatRowRemoved ==
    EmptyPathSet =>
        LET call == lastPathCall[1] IN
        m_entries = IF call.index < Len(call.before)
                    THEN RemoveAt(call.before, call.index)
                    ELSE call.before

\* C39: with every call made for a row below rowCount(), no call reaches
\* erase with a position outside the entries, rowCount() is pathCount()
\* plus one exactly when the append entry is shown, and setting an empty
\* path removes no entry but that of its row
C39_RowsStayInRange ==
    /\ NoneOutside
    /\ AppendRowCounted
    /\ OnlyThatRowRemoved
====
